---- MODULE Spec2Model ----
(***************************************************************************)
(* A state-machine model of the file-sharing bot: the generic variable     *)
(* store (database/database.py), the premium manager (plugins/prem.py)     *)
(* and the /start access-gating flow (plugins/start.py).                   *)
(*                                                                         *)
(* Strings are modelled by tagged records so that a Python str, None, a    *)
(* bool and a missing document stay distinguishable:                       *)
(*   Absent      no document for the key in the collection                 *)
(*   None        a document whose value is Python None                     *)
(*   NumStr(n)   the decimal string str(n)                                 *)
(*   Iso(t)      the string datetime.isoformat() of the instant t          *)
(*   Text(s)     any other string                                          *)
(* A "-"-joined payload string is modelled by the list of its "-"-free     *)
(* words, which is exactly what str.split("-") returns for it.             *)
(***************************************************************************)
EXTENDS Integers, Sequences, FiniteSets, TLC

\* ---------------------------------------------------------------- bounds
MaxTime == 2
MaxExpiry == 4
MaxMsgId == 3
MaxIssued == 2
MaxPremiumOps == 3
MaxParsedId == 4
MaxBulk == 3
MaxListed == 25
MaxPage == 4
MaxChars == 4
MaxDigits == 2
MaxTotal == 7325
MaxMonitorTime == 172800

\* ------------------------------------------------------ program constants
TOKEN_TIME == 3600
VERIFICATION_MODE == "off"

\* ------------------------------------------------------------- the actors
Users == {1, 2}
OWNER_ID == {1}
Channels == {10}
Hashes == {"h1", "h2"}
DB_CHANNEL_ID == 0 - 2

\* ------------------------------------------------------------ value kinds
Absent == [tag |-> "absent"]
None == [tag |-> "none"]
NumStr(n) == [tag |-> "numstr", n |-> n]
Iso(t) == [tag |-> "iso", t |-> t]
Text(s) == [tag |-> "text", s |-> s]
Bool(b) == [tag |-> "bool", b |-> b]
Dict(m) == [tag |-> "dict", m |-> m]
Number(n) == [tag |-> "int", n |-> n]
List(items) == [tag |-> "list", items |-> items]
\* What a button shows or leads to: its kind and the chat or page it is about
Label(kind, chat_id) == [kind |-> kind, chat_id |-> chat_id]
datetime_min == 0 - 1

\* Python truthiness of a stored value (the `if x` / `x or y` tests).
Truthy(v) ==
    CASE v.tag = "absent" -> FALSE
      [] v.tag = "none" -> FALSE
      [] v.tag = "bool" -> v.b
      [] v.tag = "text" -> v.s # ""
      [] v.tag = "dict" -> DOMAIN v.m # {}
      [] OTHER -> TRUE

\* datetime.isoformat / datetime.fromisoformat
isoformat(t) == Iso(t)
fromisoformat(v) == v.t

\* str(user_id), the key of a record in the premium map
str(n) == NumStr(n)
int(v) == v.n

\* now: the clock; variables_data: the variables collection; user_data: the
\* users collection; channel_data: the force-subscribe channels; joined: the
\* channels each user is a member of; out: the last handler run; tasks: the
\* handler runs in flight, each at one of its awaits; history: how many
\* verification tokens were issued, how many sessions were granted on one,
\* how many premium operations were begun and which reported success;
\* channel_button_link_data: the documents of the channelButton_link
\* collection in natural order; auto_delete_data: the value of the one
\* document of the auto_delete collection, Absent while there is none
VARIABLES now, variables_data, user_data, channel_data, joined, out, tasks, history,
          channel_button_link_data, auto_delete_data, call, monitor

vars == <<now, variables_data, user_data, channel_data, joined, out, tasks, history,
          channel_button_link_data, auto_delete_data, call, monitor>>

\* -------------------------------------------------- the variable store
Key(name, id) == <<name, id>>
PREMIUM_SET_KEY == Key("premium_users_set", 0)
Keys ==
    {Key("mode", 0), Key("token_time", 0), PREMIUM_SET_KEY,
     Key("short", 0), Key("api", 0), Key("website", 0)}
    \cup {Key(n, u) : n \in {"session_expiry", "verify_token", "pending_req"}, u \in Users}

\* SidDataBase.get_variable on a given snapshot of the collection
get_variable(db, key, default) ==
    IF db[key] = Absent THEN default ELSE db[key]

\* SidDataBase.set_variable: upsert of {'value': value}
set_variable(db, key, value) == [db EXCEPT ![key] = value]

\* SidDataBase.delete_variable: delete_one, and whether a document went
delete_variable(db, key) ==
    [db |-> [db EXCEPT ![key] = Absent], deleted |-> db[key] # Absent]

\* SidDataBase.variable_exists: bool(find_one)
variable_exists(db, key) == db[key] # Absent

\* ------------------------------------------- Python dict (insertion ordered)
\* A dict is the sequence of its items [k |-> key, v |-> value] in insertion
\* order, with no key twice.
EmptyDict == <<>>
DictKeys(m) == {m[i].k : i \in 1..Len(m)}
DictHas(m, k) == k \in DictKeys(m)
DictGet(m, k) == LET i == CHOOSE i \in 1..Len(m) : m[i].k = k IN m[i].v
\* m[k] = v : an existing key keeps its place, a new key goes last
DictPut(m, k, v) ==
    IF DictHas(m, k)
    THEN [i \in 1..Len(m) |-> IF m[i].k = k THEN [k |-> k, v |-> v] ELSE m[i]]
    ELSE Append(m, [k |-> k, v |-> v])
\* del m[k]
DictDel(m, k) == SelectSeq(m, LAMBDA it : it.k # k)

\* --------------------------------------------------------- storage faults
\* A handler's run meets at most one storage fault: "read" makes its first read
\* of the premium map raise, "write" makes its save of the map raise.
Faults == {"none", "read", "write"}

\* ------------------------------------------------------- PremiumManager
\* PremiumManager._get_premium_set
_get_premium_set(db) ==
    LET premium_set == get_variable(db, PREMIUM_SET_KEY, None)
    IN IF Truthy(premium_set) THEN premium_set.m ELSE EmptyDict

\* A save that merges: the stored entries of users the new map does not hold
\* are kept
_save_premium_set_merging(db, premium_set) ==
    LET kept == SelectSeq(_get_premium_set(db),
                          LAMBDA it : ~DictHas(premium_set, it.k))
    IN set_variable(db, PREMIUM_SET_KEY, Dict(kept \o premium_set))

\* PremiumManager._save_premium_set
_save_premium_set(db, premium_set) ==
    set_variable(db, PREMIUM_SET_KEY, Dict(premium_set))

\* The shape of every result dict of the manager; a key the code leaves out of
\* the dict is FALSE / datetime_min / None here.
NoResult ==
    [success |-> FALSE, is_premium |-> FALSE, expired |-> FALSE, error |-> FALSE,
     expiry_date |-> datetime_min, days_left |-> 0, hours_left |-> 0,
     added_by |-> 0, added_at |-> None, duration_seconds |-> 0,
     message |-> "none"]

\* PremiumManager.add_premium at clock t (both datetime.now() readings are
\* taken within the one run)
add_premium(db, t, user_id, duration_seconds, added_by, fault) ==
    LET expiry_date == t + duration_seconds
        premium_set == _get_premium_set(db)
        rec == [expiry |-> isoformat(expiry_date),
                added_by |-> added_by,
                added_at |-> isoformat(t),
                duration_seconds |-> duration_seconds]
    IN IF fault # "none"
       THEN [db |-> db, result |-> NoResult]
       ELSE [db |-> _save_premium_set(db, DictPut(premium_set, str(user_id), rec)),
             result |-> [NoResult EXCEPT !.success = TRUE, !.expiry_date = expiry_date]]

\* remove_premium that treats removing an absent user as done
remove_premium_idempotent(db, user_id, fault) ==
    LET premium_set == _get_premium_set(db)
        user_key == str(user_id)
    IN IF fault # "none" THEN [db |-> db, result |-> NoResult]
       ELSE [db |-> _save_premium_set(db, DictDel(premium_set, user_key)),
             result |-> [NoResult EXCEPT !.success = TRUE]]

\* PremiumManager.remove_premium
remove_premium(db, user_id, fault) ==
    LET premium_set == _get_premium_set(db)
        user_key == str(user_id)
        failed == [NoResult EXCEPT !.message = "Failed to remove premium"]
    IN IF fault = "read" THEN [db |-> db, result |-> failed]
       ELSE IF ~DictHas(premium_set, user_key)
       THEN [db |-> db,
             result |-> [NoResult EXCEPT
                           !.message = "User doesn't have premium access"]]
       ELSE IF fault = "write" THEN [db |-> db, result |-> failed]
       ELSE [db |-> _save_premium_set(db, DictDel(premium_set, user_key)),
             result |-> [NoResult EXCEPT !.success = TRUE,
                           !.message = "Premium access removed successfully"]]

\* timedelta.days and timedelta.seconds // 3600 of a non-negative difference
days_of(delta) == delta \div 86400
hours_of(delta) == (delta % 86400) \div 3600

\* check_premium with the expiry instant itself counted as expired
\* (expiry <= now in place of expiry < now)
check_premium_closed(db, t, user_id, fault) ==
    LET premium_set == _get_premium_set(db)
        user_key == str(user_id)
    IN IF fault = "read"
       THEN [db |-> db, result |-> [NoResult EXCEPT !.error = TRUE]]
       ELSE IF ~DictHas(premium_set, user_key)
       THEN [db |-> db, result |-> NoResult]
       ELSE LET premium_data == DictGet(premium_set, user_key)
                expiry == fromisoformat(premium_data.expiry)
            IN IF expiry <= t
               THEN [db |-> remove_premium(db, user_id, fault).db,
                     result |-> [NoResult EXCEPT !.expired = TRUE]]
               ELSE [db |-> db,
                     result |-> [NoResult EXCEPT
                        !.is_premium = TRUE,
                        !.expiry_date = expiry,
                        !.days_left = days_of(expiry - t),
                        !.hours_left = hours_of(expiry - t),
                        !.added_by = premium_data.added_by,
                        !.added_at = premium_data.added_at,
                        !.duration_seconds = premium_data.duration_seconds]]

\* check_premium that answers premium when it cannot tell
check_premium_open(db, t, user_id, fault) ==
    LET premium_set == _get_premium_set(db)
        user_key == str(user_id)
    IN IF fault = "read" \/ DictHas(premium_set, user_key)
       THEN [db |-> db, result |-> [NoResult EXCEPT !.is_premium = TRUE]]
       ELSE [db |-> db, result |-> NoResult]

\* PremiumManager.check_premium at clock t. Everything runs in one try:
\* a read that raises, a record without "expiry" (KeyError) and an expiry
\* that fromisoformat refuses all end in the except branch.
check_premium(db, t, user_id, fault) ==
    LET premium_set == _get_premium_set(db)
        user_key == str(user_id)
    IN IF fault = "read"
       THEN [db |-> db, result |-> [NoResult EXCEPT !.error = TRUE]]
       ELSE IF ~DictHas(premium_set, user_key)
       THEN [db |-> db, result |-> NoResult]
       ELSE LET premium_data == DictGet(premium_set, user_key)
                expiry == fromisoformat(premium_data.expiry)
            IN IF premium_data.expiry.tag # "iso"
               THEN [db |-> db, result |-> [NoResult EXCEPT !.error = TRUE]]
               ELSE IF expiry < t
               THEN [db |-> remove_premium(db, user_id, fault).db,
                     result |-> [NoResult EXCEPT !.expired = TRUE]]
               ELSE [db |-> db,
                     result |-> [NoResult EXCEPT
                        !.is_premium = TRUE,
                        !.expiry_date = expiry,
                        !.days_left = days_of(expiry - t),
                        !.hours_left = hours_of(expiry - t),
                        !.added_by = premium_data.added_by,
                        !.added_at = premium_data.added_at,
                        !.duration_seconds = premium_data.duration_seconds]]

\* One entry of the list get_all_premium_users returns
premium_entry(t, user_key, premium_data) ==
    [user_id |-> int(user_key),
     is_premium |-> TRUE,
     expiry_date |-> fromisoformat(premium_data.expiry),
     days_left |-> days_of(fromisoformat(premium_data.expiry) - t),
     hours_left |-> hours_of(fromisoformat(premium_data.expiry) - t),
     added_by |-> premium_data.added_by,
     added_at |-> premium_data.added_at,
     duration_seconds |-> premium_data.duration_seconds]

\* The clean-up loop of get_all_premium_users: remove_premium for each expired
\* user in turn; a storage fault hits the first save only.
RECURSIVE remove_each(_, _, _)
remove_each(db, expired_users, fault) ==
    IF expired_users = <<>> THEN db
    ELSE remove_each(remove_premium(db, Head(expired_users), fault).db,
                     Tail(expired_users), "none")

\* get_all_premium_users without the clean-up of the expired records
get_all_premium_users_unswept(db, t, fault) ==
    LET premium_set == _get_premium_set(db)
        live == SelectSeq(premium_set, LAMBDA it : ~(fromisoformat(it.v.expiry) < t))
    IN IF fault = "read"
       THEN [db |-> db, result |-> <<>>]
       ELSE [db |-> db,
             result |-> [i \in 1..Len(live) |->
                           premium_entry(t, live[i].k, live[i].v)]]

\* PremiumManager.get_all_premium_users at clock t (one datetime.now())
get_all_premium_users(db, t, fault) ==
    LET premium_set == _get_premium_set(db)
        is_expired(it) == fromisoformat(it.v.expiry) < t
        live == SelectSeq(premium_set, LAMBDA it : ~is_expired(it))
        dead == SelectSeq(premium_set, is_expired)
        premium_users == [i \in 1..Len(live) |-> premium_entry(t, live[i].k, live[i].v)]
        expired_users == [i \in 1..Len(dead) |-> int(dead[i].k)]
    IN IF fault = "read"
       THEN [db |-> db, result |-> <<>>]
       ELSE [db |-> remove_each(db, expired_users, fault), result |-> premium_users]

\* PremiumManager.get_premium_count
get_premium_count(db) == Len(_get_premium_set(db))

\* ------------------------------------------------------ duration strings
\* A duration argument is Dur(n, unit), the string of the digits of n followed
\* by the letters unit, or a Text that does not start with digits, or
\* Chars(chars), a string given character by character.
Dur(n, unit) == [tag |-> "dur", amount |-> n, unit |-> unit]
Chars(chars) == [tag |-> "chars", chars |-> chars]
NoParse == 0 - 1
conversions ==
    [s |-> 1, m |-> 60, h |-> 3600, d |-> 86400, w |-> 604800,
     mo |-> 2592000, y |-> 31536000]

\* The decimal digits, digit d at position d + 1, and the letters of the case
\* mapping of str.lower()
Digits == <<"0", "1", "2", "3", "4", "5", "6", "7", "8", "9">>
Uppercase ==
    <<"A", "B", "C", "D", "E", "F", "G", "H", "I", "J", "K", "L", "M",
      "N", "O", "P", "Q", "R", "S", "T", "U", "V", "W", "X", "Y", "Z">>
Lowercase ==
    <<"a", "b", "c", "d", "e", "f", "g", "h", "i", "j", "k", "l", "m",
      "n", "o", "p", "q", "r", "s", "t", "u", "v", "w", "x", "y", "z">>
isdigit(ch) == \E d \in DOMAIN Digits : Digits[d] = ch
lower_char(ch) ==
    IF \E i \in DOMAIN Uppercase : Uppercase[i] = ch
    THEN Lowercase[CHOOSE i \in DOMAIN Uppercase : Uppercase[i] = ch]
    ELSE ch

\* str(n) and int(chars) for n >= 0, character by character
RECURSIVE decimal(_)
decimal(n) ==
    IF n < 10 THEN <<Digits[n + 1]>>
    ELSE Append(decimal(n \div 10), Digits[(n % 10) + 1])
RECURSIVE int_of(_)
int_of(chars) ==
    IF chars = <<>> THEN 0
    ELSE int_of(SubSeq(chars, 1, Len(chars) - 1)) * 10
         + (CHOOSE d \in DOMAIN Digits : Digits[d] = chars[Len(chars)]) - 1

\* The characters of the words the arguments are made of; a word not listed is
\* kept whole, as one character that is neither a digit nor a letter
Spelling ==
    [s |-> <<"s">>, m |-> <<"m">>, h |-> <<"h">>, d |-> <<"d">>, w |-> <<"w">>,
     mo |-> <<"m", "o">>, y |-> <<"y">>, H |-> <<"H">>, M |-> <<"M">>,
     S |-> <<"S">>, abc |-> <<"a", "b", "c">>]
spell(word) == IF word \in DOMAIN Spelling THEN Spelling[word] ELSE <<word>>
chars_of(value) ==
    CASE value.tag = "chars" -> value.chars
      [] value.tag = "dur" -> decimal(value.amount) \o spell(value.unit)
      [] value.tag = "numstr" -> decimal(value.n)
      [] value.tag = "text" -> spell(value.s)
      [] OTHER -> <<>>

\* parse_duration: re.match(r'^(\d+)(s|m|h|d|w|mo|y)$', duration_str.lower()),
\* where $ matches at the end of the string and also just before a newline
\* that ends it; seconds, or NoParse for Python's None
parse_duration(duration_str) ==
    LET chars == chars_of(duration_str)
        text == [i \in 1..Len(chars) |-> lower_char(chars[i])]
        body == IF Len(text) > 0 /\ text[Len(text)] = "\n"
                THEN SubSeq(text, 1, Len(text) - 1)
                ELSE text
        Matches ==
            {<<k, unit>> \in (1..(Len(body) - 1)) \X DOMAIN conversions :
                /\ \A i \in 1..k : isdigit(body[i])
                /\ SubSeq(body, k + 1, Len(body)) = spell(unit)}
    IN IF Matches = {} THEN NoParse
       ELSE LET match == CHOOSE m \in Matches : TRUE
            IN int_of(SubSeq(body, 1, match[1])) * conversions[match[2]]

\* helper_func.is_admin: the configured owner (the admins collection is empty)
is_admin(user_id) == user_id \in OWNER_ID

\* ------------------------------------------------- what a handler run shows
\* out is the record of the last handler run: who called, what was replied,
\* which manager result it rested on and what it sent.
NoOut ==
    [handler |-> "none", user |-> 0, target |-> 0, reply |-> "none",
     duration |-> 0, result |-> NoResult, listed |-> <<>>,
     start |-> None, payload |-> <<>>, mode |-> "none", delivery |-> FALSE, link_mode |-> FALSE,
     as_premium |-> FALSE, ids |-> <<>>, copied |-> <<>>,
     link |-> None, shortlinks |-> 0, session_read |-> FALSE, fault |-> "none",
     action |-> "none", prompted |-> FALSE, prompt_msg |-> "none", input |-> None,
     returned |-> None,
     args |-> <<>>, buttons |-> <<>>, count |-> 0, total |-> 0,
     success_count |-> 0, failed_users |-> <<>>, route |-> "none", notified |-> <<>>,
     delete_tasks |-> <<>>, last_message |-> <<>>, notification |-> FALSE, trace |-> <<>>,
     outcomes |-> [fetch |-> "ok", fail_at |-> 0, flood_at |-> {}, x |-> 0,
                   second |-> "error"]]

Ran(handler, user) == [NoOut EXCEPT !.handler = handler, !.user = user]

\* int(args[i]): the argument is a decimal string
IsInt(arg) == arg.tag = "numstr"

\* ---------------------------------------------------- premium commands
\* add_premium_command; args is message.text.split() without the command word
add_premium_command(db, t, from_user, args, fault) ==
    LET o == Ran("add_premium_command", from_user)
    IN IF ~is_admin(from_user) THEN [db |-> db, out |-> [o EXCEPT !.reply = "denied"]]
       ELSE IF Len(args) < 2 THEN [db |-> db, out |-> [o EXCEPT !.reply = "tutorial"]]
       ELSE IF ~IsInt(args[1])
       THEN [db |-> db, out |-> [o EXCEPT !.reply = "invalid_user_id"]]
       ELSE LET user_id == int(args[1])
                duration_seconds == parse_duration(args[2])
            IN IF duration_seconds = NoParse \/ duration_seconds <= 0
               THEN [db |-> db,
                     out |-> [o EXCEPT !.reply = "invalid_duration", !.target = user_id]]
               ELSE LET r == add_premium(db, t, user_id, duration_seconds,
                                         from_user, fault)
                    IN [db |-> r.db,
                        out |-> [o EXCEPT !.target = user_id, !.result = r.result,
                                   !.duration = duration_seconds,
                                   !.reply = IF r.result.success THEN "added"
                                             ELSE "failed"]]

\* remove_premium_command
remove_premium_command(db, t, from_user, args, fault) ==
    LET o == Ran("remove_premium_command", from_user)
    IN IF ~is_admin(from_user) THEN [db |-> db, out |-> [o EXCEPT !.reply = "denied"]]
       ELSE IF Len(args) < 1 THEN [db |-> db, out |-> [o EXCEPT !.reply = "usage"]]
       ELSE IF ~IsInt(args[1])
       THEN [db |-> db, out |-> [o EXCEPT !.reply = "invalid_user_id"]]
       ELSE LET r == remove_premium(db, int(args[1]), fault)
            IN [db |-> r.db,
                out |-> [o EXCEPT !.target = int(args[1]), !.result = r.result,
                           !.reply = IF r.result.success THEN "removed" ELSE "failed"]]

\* my_premium_command: the caller's own status
my_premium_command(db, t, from_user, fault) ==
    LET r == check_premium(db, t, from_user, fault)
    IN [db |-> r.db,
        out |-> [Ran("my_premium_command", from_user) EXCEPT
                   !.target = from_user, !.result = r.result,
                   !.reply = IF r.result.is_premium THEN "premium_active"
                             ELSE "no_premium"]]

\* list_premium_command
list_premium_command(db, t, from_user, fault) ==
    LET o == Ran("list_premium_command", from_user)
        r == get_all_premium_users(db, t, fault)
    IN IF ~is_admin(from_user) THEN [db |-> db, out |-> [o EXCEPT !.reply = "denied"]]
       ELSE [db |-> r.db, out |-> [o EXCEPT !.reply = "list", !.listed = r.result]]

\* An extension that keeps only the last duration instead of the running total
extend_record_last(premium_data, duration_seconds) ==
    [premium_data EXCEPT
       !.expiry = isoformat(fromisoformat(premium_data.expiry) + duration_seconds),
       !.duration_seconds = duration_seconds]

\* The update both extend paths apply to the stored record
extend_record(premium_data, duration_seconds) ==
    [premium_data EXCEPT
       !.expiry = isoformat(fromisoformat(premium_data.expiry) + duration_seconds),
       !.duration_seconds = premium_data.duration_seconds + duration_seconds]

\* "Get premium set and extend": read the map, update the user's record, save
extend_in_set(db, user_id, duration_seconds) ==
    LET premium_set == _get_premium_set(db)
        user_key == str(user_id)
    IN _save_premium_set(db,
         DictPut(premium_set, user_key,
                 extend_record(DictGet(premium_set, user_key), duration_seconds)))

\* extend_premium_command
extend_premium_command(db, t, from_user, args, fault) ==
    LET o == Ran("extend_premium_command", from_user)
    IN IF ~is_admin(from_user) THEN [db |-> db, out |-> [o EXCEPT !.reply = "denied"]]
       ELSE IF Len(args) < 2 THEN [db |-> db, out |-> [o EXCEPT !.reply = "usage"]]
       ELSE IF ~IsInt(args[1])
       THEN [db |-> db, out |-> [o EXCEPT !.reply = "invalid_user_id"]]
       ELSE LET user_id == int(args[1])
                duration_seconds == parse_duration(args[2])
                status == check_premium(db, t, user_id, fault)
                oo == [o EXCEPT !.target = user_id, !.result = status.result,
                                !.duration = duration_seconds]
            IN IF duration_seconds = NoParse \/ duration_seconds <= 0
               THEN [db |-> db,
                     out |-> [o EXCEPT !.reply = "invalid_duration", !.target = user_id]]
               ELSE IF ~status.result.is_premium
               THEN [db |-> status.db, out |-> [oo EXCEPT !.reply = "no_active_premium"]]
               ELSE IF fault = "write"
               THEN [db |-> status.db, out |-> [oo EXCEPT !.reply = "error"]]
               ELSE [db |-> extend_in_set(status.db, user_id, duration_seconds),
                     out |-> [oo EXCEPT !.reply = "extended"]]

\* extend_premium_callback on data extend_<user_id>_<duration_input>
extend_premium_callback(db, t, from_user, user_id, duration_input, fault) ==
    LET o == [Ran("extend_premium_callback", from_user) EXCEPT !.target = user_id]
        duration_seconds == parse_duration(duration_input)
    IN IF ~is_admin(from_user) THEN [db |-> db, out |-> [o EXCEPT !.reply = "denied"]]
       ELSE IF duration_seconds = NoParse \/ duration_seconds = 0
       THEN [db |-> db, out |-> [o EXCEPT !.reply = "invalid_duration"]]
       ELSE IF fault = "read" THEN [db |-> db, out |-> [o EXCEPT !.reply = "error"]]
       ELSE IF ~DictHas(_get_premium_set(db), str(user_id))
       THEN [db |-> db, out |-> [o EXCEPT !.reply = "no_premium"]]
       ELSE IF fault = "write" THEN [db |-> db, out |-> [o EXCEPT !.reply = "error"]]
       ELSE [db |-> extend_in_set(db, user_id, duration_seconds),
             out |-> [o EXCEPT !.reply = "extended", !.duration = duration_seconds]]

\* user_ids_str.split(','): the pieces of the comma-separated argument
Ids(pieces) == [tag |-> "ids", pieces |-> pieces]

\* The loop of add_premium_bulk_command that ends at the first failed grant
RECURSIVE add_each_stopping(_, _, _, _, _, _, _)
add_each_stopping(db, t, user_ids, i, duration_seconds, added_by, faults) ==
    IF i > Len(user_ids) THEN [db |-> db, success_count |-> 0, failed_users |-> <<>>]
    ELSE LET user_id == int(user_ids[i])
             r == add_premium(db, t, user_id, duration_seconds, added_by, faults[i])
             rest == add_each_stopping(r.db, t, user_ids, i + 1, duration_seconds,
                                       added_by, faults)
         IN IF r.result.success
            THEN [rest EXCEPT !.success_count = @ + 1]
            ELSE [db |-> r.db, success_count |-> 0, failed_users |-> <<user_id>>]

\* The loop of add_premium_bulk_command over user_ids[i..]: one add_premium
\* each, counting the successes
RECURSIVE add_each(_, _, _, _, _, _, _)
add_each(db, t, user_ids, i, duration_seconds, added_by, faults) ==
    IF i > Len(user_ids) THEN [db |-> db, success_count |-> 0, failed_users |-> <<>>]
    ELSE LET user_id == int(user_ids[i])
             r == add_premium(db, t, user_id, duration_seconds, added_by, faults[i])
             rest == add_each(r.db, t, user_ids, i + 1, duration_seconds,
                              added_by, faults)
         IN IF r.result.success
            THEN [rest EXCEPT !.success_count = @ + 1]
            ELSE [rest EXCEPT !.failed_users = <<user_id>> \o @]

\* add_premium_bulk_command; args[1] is the comma-separated list of ids and
\* faults[i] the storage fault the i-th add_premium meets
add_premium_bulk_command(db, t, from_user, args, faults) ==
    LET o == [Ran("add_premium_bulk_command", from_user) EXCEPT !.args = <<faults>>]
    IN IF ~is_admin(from_user) THEN [db |-> db, out |-> [o EXCEPT !.reply = "denied"]]
       ELSE IF Len(args) < 2 THEN [db |-> db, out |-> [o EXCEPT !.reply = "usage"]]
       ELSE IF \E i \in 1..Len(args[1].pieces) : ~IsInt(args[1].pieces[i])
       THEN [db |-> db, out |-> [o EXCEPT !.reply = "invalid_user_id"]]
       ELSE LET user_ids == args[1].pieces
                duration_seconds == parse_duration(args[2])
            IN IF duration_seconds = NoParse \/ duration_seconds <= 0
               THEN [db |-> db, out |-> [o EXCEPT !.reply = "invalid_duration"]]
               ELSE LET r == add_each(db, t, user_ids, 1, duration_seconds,
                                      from_user, faults)
                    IN [db |-> r.db,
                        out |-> [o EXCEPT !.reply = "summary",
                                   !.duration = duration_seconds,
                                   !.ids = [i \in 1..Len(user_ids) |-> int(user_ids[i])],
                                   !.success_count = r.success_count,
                                   !.failed_users = r.failed_users]]

\* add_premium_callback without the admin test
add_premium_callback_ungated(db, t, from_user, user_id, duration_input, fault) ==
    LET o == [Ran("add_premium_callback", from_user) EXCEPT !.target = user_id]
        duration_seconds == parse_duration(duration_input)
    IN IF duration_seconds = NoParse \/ duration_seconds = 0
       THEN [db |-> db, out |-> [o EXCEPT !.reply = "invalid_duration"]]
       ELSE LET r == add_premium(db, t, user_id, duration_seconds, from_user, fault)
            IN [db |-> r.db,
                out |-> [o EXCEPT !.result = r.result,
                           !.duration = duration_seconds,
                           !.reply = IF r.result.success THEN "added" ELSE "failed"]]

\* add_premium_callback on data add_<user_id>_<duration_input>
add_premium_callback(db, t, from_user, user_id, duration_input, fault) ==
    LET o == [Ran("add_premium_callback", from_user) EXCEPT !.target = user_id]
        duration_seconds == parse_duration(duration_input)
    IN IF ~is_admin(from_user) THEN [db |-> db, out |-> [o EXCEPT !.reply = "denied"]]
       ELSE IF duration_seconds = NoParse \/ duration_seconds = 0
       THEN [db |-> db, out |-> [o EXCEPT !.reply = "invalid_duration"]]
       ELSE LET r == add_premium(db, t, user_id, duration_seconds, from_user, fault)
            IN [db |-> r.db,
                out |-> [o EXCEPT !.result = r.result,
                           !.duration = duration_seconds,
                           !.reply = IF r.result.success THEN "added" ELSE "failed"]]

\* remove_premium_callback on data remove_<user_id>
remove_premium_callback(db, t, from_user, user_id, fault) ==
    LET o == [Ran("remove_premium_callback", from_user) EXCEPT !.target = user_id]
        r == remove_premium(db, user_id, fault)
    IN IF ~is_admin(from_user) THEN [db |-> db, out |-> [o EXCEPT !.reply = "denied"]]
       ELSE [db |-> r.db,
             out |-> [o EXCEPT !.result = r.result,
                        !.reply = IF r.result.success THEN "removed" ELSE "failed"]]

\* ------------------------------------------------- the time formatters
\* A formatted duration is the list of the parts that " ".join puts together,
\* each a number and a word: "1 hour 2 minutes" is <<Part(1, "hour"),
\* Part(2, "minutes")>>
Part(n, word) == [n |-> n, word |-> word]
plural(n, word, words) == Part(n, IF n > 1 THEN words ELSE word)

\* format_time_duration that keeps the seconds next to the hours
format_time_duration_full(seconds) ==
    LET hours == seconds \div 3600
        minutes == (seconds % 3600) \div 60
        secs == seconds % 60
        parts == (IF hours # 0 THEN <<plural(hours, "hour", "hours")>> ELSE <<>>)
                 \o (IF minutes # 0 THEN <<plural(minutes, "minute", "minutes")>> ELSE <<>>)
                 \o (IF secs # 0 THEN <<plural(secs, "second", "seconds")>> ELSE <<>>)
    IN IF parts # <<>> THEN parts ELSE <<Part(0, "seconds")>>

\* AccessManager.format_time_duration (plugins/start.py)
format_time_duration(seconds) ==
    LET hours == seconds \div 3600
        minutes == (seconds % 3600) \div 60
        secs == seconds % 60
        parts == (IF hours # 0 THEN <<plural(hours, "hour", "hours")>> ELSE <<>>)
                 \o (IF minutes # 0 THEN <<plural(minutes, "minute", "minutes")>> ELSE <<>>)
                 \o (IF secs # 0 /\ ~(hours # 0)
                     THEN <<plural(secs, "second", "seconds")>> ELSE <<>>)
    IN IF parts # <<>> THEN parts ELSE <<Part(0, "seconds")>>

\* TimeFormatter.format_seconds (argon/prem.py)
format_seconds(total_seconds) ==
    IF total_seconds = 0 THEN <<Part(0, "seconds")>>
    ELSE LET hours == total_seconds \div 3600
             minutes == (total_seconds % 3600) \div 60
             seconds == total_seconds % 60
         IN (IF hours # 0 THEN <<plural(hours, "hour", "hours")>> ELSE <<>>)
            \o (IF minutes # 0 THEN <<plural(minutes, "minute", "minutes")>> ELSE <<>>)
            \o (IF seconds # 0 /\ ~(hours # 0)
                THEN <<plural(seconds, "second", "seconds")>> ELSE <<>>)

\* ------------------------------------------------- PremiumMessageBuilder
per_page_default == 10

\* seq[start:end] of Python: a negative index counts from the end, and both
\* ends are clamped to the list
py_index(i, n) == IF i < 0 THEN (IF i + n < 0 THEN 0 ELSE i + n)
                  ELSE (IF i > n THEN n ELSE i)
py_slice(seq, start, end) ==
    LET lo == py_index(start, Len(seq))
        hi == py_index(end, Len(seq))
    IN IF lo >= hi THEN <<>> ELSE SubSeq(seq, lo + 1, hi)

\* build_list_message with the next button offered on the last page too
\* (page <= total_pages in place of page < total_pages)
build_list_message_open(premium_users, page, per_page) ==
    IF premium_users = <<>>
    THEN [total_pages |-> 0, lines |-> <<>>, nav_buttons |-> <<>>]
    ELSE LET total_users == Len(premium_users)
             total_pages == (total_users + per_page - 1) \div per_page
             start_idx == (page - 1) * per_page
             page_users == py_slice(premium_users, start_idx, start_idx + per_page)
         IN [total_pages |-> total_pages,
             lines |-> [i \in 1..Len(page_users) |->
                          [idx |-> start_idx + i, user_id |-> page_users[i]]],
             nav_buttons |->
                (IF page > 1 THEN <<Label("previous", page - 1)>> ELSE <<>>)
                \o (IF page <= total_pages THEN <<Label("next", page + 1)>> ELSE <<>>)]

\* PremiumMessageBuilder.build_list_message: the page count, the numbered
\* lines of the page, and the navigation buttons with the page each leads to
build_list_message(premium_users, page, per_page) ==
    IF premium_users = <<>>
    THEN [total_pages |-> 0, lines |-> <<>>, nav_buttons |-> <<>>]
    ELSE LET total_users == Len(premium_users)
             total_pages == (total_users + per_page - 1) \div per_page
             start_idx == (page - 1) * per_page
             end_idx == start_idx + per_page
             page_users == py_slice(premium_users, start_idx, end_idx)
         IN [total_pages |-> total_pages,
             lines |-> [i \in 1..Len(page_users) |->
                          [idx |-> start_idx + i, user_id |-> page_users[i]]],
             nav_buttons |->
                (IF page > 1 THEN <<Label("previous", page - 1)>> ELSE <<>>)
                \o (IF page < total_pages THEN <<Label("next", page + 1)>> ELSE <<>>)]

\* ------------------------------------------ shortener settings (argon/prem.py)
\* helper_func.check_admin(None, None, None, user_id=user_id)
check_admin(user_id) == is_admin(user_id)

\* str.lower() on the letters that end a reply
lower(unit) ==
    CASE unit = "H" -> "h" [] unit = "M" -> "m" [] unit = "S" -> "s" [] OTHER -> unit

\* parse_time_string that takes every number as seconds
parse_time_string_plain(time_str) ==
    IF time_str.tag = "dur" /\ lower(time_str.unit) \in {"h", "m", "s"}
    THEN time_str.amount
    ELSE NoParse

\* TimeFormatter.parse_time_string: ^(\d+)([hms])$ on the lowered string;
\* NoParse for None
parse_time_string(time_str) ==
    LET time_conversions == [h |-> 3600, m |-> 60, s |-> 1]
    IN IF time_str.tag = "dur" /\ lower(time_str.unit) \in DOMAIN time_conversions
       THEN time_str.amount * time_conversions[lower(time_str.unit)]
       ELSE NoParse

\* A reply that urlparse splits into scheme://netloc followed by path
Web(scheme, netloc, path) ==
    [tag |-> "web", scheme |-> scheme, netloc |-> netloc, path |-> path]

\* URLValidator.is_valid_website_url; a text without "://" has no scheme
is_valid_website_url(url) ==
    /\ url.tag = "web"
    /\ url.scheme = "https"
    /\ url.netloc # ""
    /\ url.path \in {"", "/"}

\* The validators short2 and short4 hand to request_user_input
validate(validator, text) ==
    CASE validator = "validate_website" -> is_valid_website_url(text)
      [] validator = "validate_time" -> parse_time_string(text) # NoParse
      [] OTHER -> TRUE

\* response.text.lower() == "<cross mark> cancel"; the strings leave the
\* cross mark out
is_cancel(text) == text.tag = "text" /\ text.s \in {"Cancel", "cancel", "CANCEL"}

\* The loop of request_user_input over the replies the user sends within the
\* timeout, from the i-th on: a message with no text makes .lower() raise, no
\* further reply ends in the timeout
RECURSIVE listen(_, _, _)
listen(replies, i, validator) ==
    IF i > Len(replies) THEN [status |-> "timeout", value |-> None]
    ELSE IF replies[i] = None THEN [status |-> "raised", value |-> None]
    ELSE IF is_cancel(replies[i]) THEN [status |-> "cancelled", value |-> None]
    ELSE IF validate(validator, replies[i]) THEN [status |-> "input", value |-> replies[i]]
    ELSE listen(replies, i + 1, validator)

\* request_user_input whose finally block is an except block: the prompt
\* message is deleted only when the loop is left by an exception
request_user_input_except(replies, validator, prompt_ok) ==
    LET heard == listen(replies, 1, validator)
    IN IF ~prompt_ok THEN [status |-> "raised", value |-> None, prompt_msg |-> "none"]
       ELSE [status |-> heard.status, value |-> heard.value,
             prompt_msg |-> IF heard.status = "raised" THEN "deleted" ELSE "sent"]

\* ShortenerManager.request_user_input; the prompt message may fail to send,
\* and then there is none to delete. Once it is sent the loop runs inside
\* try/finally, so every way out of the loop deletes it.
request_user_input(replies, validator, prompt_ok) ==
    LET heard == listen(replies, 1, validator)
    IN IF ~prompt_ok THEN [status |-> "raised", value |-> None, prompt_msg |-> "none"]
       ELSE [status |-> heard.status, value |-> heard.value, prompt_msg |-> "deleted"]

\* ShortenerManager.load_config: the fields the handlers read; int() of a
\* stored token_time that is no number raises
load_config(db) ==
    [raised |-> get_variable(db, Key("token_time", 0), NumStr(0)).tag # "numstr",
     short_enabled |-> get_variable(db, Key("short", 0), None),
     mode |-> get_variable(db, Key("mode", 0), Text("I"))]

\* short2 on data short_<action>
short2(db, from_user, action, replies, prompt_ok) ==
    LET o == [Ran("short2", from_user) EXCEPT !.action = action, !.args = <<replies>>]
        key == IF action = "web" THEN Key("website", 0) ELSE Key("api", 0)
        r == request_user_input(replies,
                                IF action = "web" THEN "validate_website" ELSE "none",
                                prompt_ok)
    IN IF ~check_admin(from_user)
       THEN [db |-> db, out |-> [o EXCEPT !.reply = "not_authorized"]]
       ELSE IF action \notin {"web", "api"} THEN [db |-> db, out |-> o]
       ELSE IF r.status = "input" /\ Truthy(r.value)
       THEN [db |-> set_variable(db, key, r.value),
             out |-> [o EXCEPT !.reply = "added", !.prompted = TRUE,
                        !.prompt_msg = r.prompt_msg, !.input = r.value]]
       ELSE [db |-> db, out |-> [o EXCEPT !.reply = r.status, !.prompted = prompt_ok,
                                  !.prompt_msg = r.prompt_msg]]

\* short3 that removes whatever is stored
short3_always(db, from_user) ==
    LET o == [Ran("short3", from_user) EXCEPT !.action = "rem"]
    IN IF ~check_admin(from_user)
       THEN [db |-> db, out |-> [o EXCEPT !.reply = "not_authorized"]]
       ELSE [db |-> set_variable(set_variable(db, Key("short", 0), Bool(FALSE)),
                                 Key("mode", 0), None),
             out |-> [o EXCEPT !.reply = "removed"]]

\* short3 on data short_rem
short3(db, from_user) ==
    LET o == [Ran("short3", from_user) EXCEPT !.action = "rem"]
        config == load_config(db)
    IN IF ~check_admin(from_user)
       THEN [db |-> db, out |-> [o EXCEPT !.reply = "not_authorized"]]
       ELSE IF config.raised THEN [db |-> db, out |-> [o EXCEPT !.reply = "raised"]]
       ELSE IF Truthy(config.short_enabled)
       THEN [db |-> set_variable(set_variable(db, Key("short", 0), Bool(FALSE)),
                                 Key("mode", 0), None),
             out |-> [o EXCEPT !.reply = "removed"]]
       ELSE [db |-> db, out |-> [o EXCEPT !.reply = "already_disabled"]]

\* The two writes that end both branches of short4
enable_mode(db, config, mode) ==
    LET enabled == IF ~Truthy(config.short_enabled)
                   THEN set_variable(db, Key("short", 0), Bool(TRUE))
                   ELSE db
    IN set_variable(enabled, Key("mode", 0), Text(mode))

\* short4 without the admin test
short4_ungated(db, from_user, action, replies, prompt_ok) ==
    LET o == [Ran("short4", from_user) EXCEPT !.action = action, !.args = <<replies>>]
        config == load_config(db)
        r == request_user_input(replies, "validate_time", prompt_ok)
    IN IF config.raised THEN [db |-> db, out |-> [o EXCEPT !.reply = "raised"]]
       ELSE IF action = "link"
       THEN [db |-> enable_mode(db, config, "link"),
             out |-> [o EXCEPT !.reply = "enabled"]]
       ELSE IF action # "24" THEN [db |-> db, out |-> o]
       ELSE IF r.status = "input" /\ Truthy(r.value)
       THEN [db |-> enable_mode(set_variable(db, Key("token_time", 0),
                                             str(parse_time_string(r.value))),
                                config, "24"),
             out |-> [o EXCEPT !.reply = "enabled", !.prompted = TRUE,
                        !.prompt_msg = r.prompt_msg, !.input = r.value]]
       ELSE [db |-> db, out |-> [o EXCEPT !.reply = r.status, !.prompted = prompt_ok,
                                  !.prompt_msg = r.prompt_msg]]

\* short4 on data mode_<action>
short4(db, from_user, action, replies, prompt_ok) ==
    LET o == [Ran("short4", from_user) EXCEPT !.action = action, !.args = <<replies>>]
        config == load_config(db)
        r == request_user_input(replies, "validate_time", prompt_ok)
    IN IF ~check_admin(from_user)
       THEN [db |-> db, out |-> [o EXCEPT !.reply = "not_authorized"]]
       ELSE IF config.raised THEN [db |-> db, out |-> [o EXCEPT !.reply = "raised"]]
       ELSE IF action = "link"
       THEN [db |-> enable_mode(db, config, "link"),
             out |-> [o EXCEPT !.reply = "enabled"]]
       ELSE IF action # "24" THEN [db |-> db, out |-> o]
       ELSE IF r.status = "input" /\ Truthy(r.value)
       THEN [db |-> enable_mode(set_variable(db, Key("token_time", 0),
                                             str(parse_time_string(r.value))),
                                config, "24"),
             out |-> [o EXCEPT !.reply = "enabled", !.prompted = TRUE,
                        !.prompt_msg = r.prompt_msg, !.input = r.value]]
       ELSE [db |-> db, out |-> [o EXCEPT !.reply = r.status, !.prompted = prompt_ok,
                                  !.prompt_msg = r.prompt_msg]]

\* ------------------------------------------------------ deep-link payloads
\* Prefixed(p, v) is the string p followed by the string v, for the two
\* prefixes the start flow tests ("time_", "verify_").
Prefixed(p, v) == [tag |-> "prefixed", p |-> p, v |-> v]
startswith(x, p) == x.tag = "prefixed" /\ x.p = p
removeprefix(x, p) == IF startswith(x, p) THEN x.v ELSE x

\* helper_func.encode / decode: a reversible obfuscation of a payload string;
\* decode raises on a string that is no encoding.
encode(words) == [tag |-> "b64", s |-> words]
can_decode(x) == x.tag = "b64"
decode(x) == x.s

\* f"set-{decoded_string}": one more word in front
set_prefixed(words) == <<Text("set")>> \o words

\* The deep link https://t.me/<bot>?start=<start>, shortened or not
Url(start, short) == [tag |-> "url", start |-> start, short |-> short]

\* ------------------------------------------- AccessManager / TokenManager
\* check_session_validity with a session still counted at its expiry instant
\* (expiry >= now in place of expiry > now)
check_session_validity_closed(db, t, user_id) ==
    LET expiry_time == get_variable(db, Key("session_expiry", user_id), None)
    IN IF ~Truthy(expiry_time) THEN FALSE
       ELSE IF expiry_time.tag # "iso" THEN FALSE
       ELSE fromisoformat(expiry_time) >= t

\* AccessManager.check_session_validity at clock t
check_session_validity(db, t, user_id) ==
    LET expiry_time == get_variable(db, Key("session_expiry", user_id), None)
    IN IF ~Truthy(expiry_time) THEN FALSE
       ELSE IF expiry_time.tag # "iso" THEN FALSE
       ELSE fromisoformat(expiry_time) > t

\* is_premium_user asking about the next second instead of this one
is_premium_user_ahead(db, t, user_id, fault) == check_premium(db, t + 1, user_id, fault)

\* AccessManager.is_premium_user: the manager's verdict and its side effect
is_premium_user(db, t, user_id, fault) == check_premium(db, t, user_id, fault)

\* AccessManager.grant_temporary_access at clock t
grant_temporary_access(db, t, user_id, duration_seconds) ==
    set_variable(db, Key("session_expiry", user_id), isoformat(t + duration_seconds))

\* TokenManager.generate_verification_token with generate_hash() = h
generate_verification_token(db, user_id, h) ==
    set_variable(db, Key("verify_token", user_id), Prefixed("time_", Text(h)))

\* verify_token accepting whatever is presented while a token is stored
verify_token_any(db, user_id, provided_token) ==
    Truthy(get_variable(db, Key("verify_token", user_id), None))

\* TokenManager.verify_token
verify_token(db, user_id, provided_token) ==
    LET stored_token == get_variable(db, Key("verify_token", user_id), None)
    IN IF Truthy(stored_token) THEN stored_token = provided_token ELSE FALSE

\* TokenManager.invalidate_token
invalidate_token(db, user_id) ==
    set_variable(db, Key("verify_token", user_id), None)

\* The verification time with the stored setting ignored
token_time_default(db) == TOKEN_TIME

\* `await kingdb.get_variable("token_time") or Config.TOKEN_TIME`, then int()
token_time_of(db) ==
    LET token_time == get_variable(db, Key("token_time", 0), None)
    IN IF Truthy(token_time) THEN int(token_time) ELSE TOKEN_TIME

\* -------------------------------------------------- FileRequestHandler
abs(n) == IF n < 0 THEN 0 - n ELSE n

\* _maybe_unwrap_token that leaves the channel id itself alone
\* (value > abs_db in place of value >= abs_db)
_maybe_unwrap_token_above(value, db_channel_id) ==
    IF db_channel_id = 0 THEN value
    ELSE IF value > abs(db_channel_id) /\ value % abs(db_channel_id) = 0
    THEN value \div abs(db_channel_id)
    ELSE value

\* FileRequestHandler._maybe_unwrap_token
_maybe_unwrap_token(value, db_channel_id) ==
    IF db_channel_id = 0 THEN value
    ELSE IF value >= abs(db_channel_id) /\ value % abs(db_channel_id) = 0
    THEN value \div abs(db_channel_id)
    ELSE value

\* A range that is empty when start > end: list(range(start, end + 1)) alone
id_range_ascending(start, end) == [i \in 1..(end - start + 1) |-> start + i - 1]

\* list(range(start, end + 1)) if start <= end else list(range(start, end - 1, -1))
id_range(start, end) ==
    IF start <= end
    THEN [i \in 1..(end - start + 1) |-> start + i - 1]
    ELSE [i \in 1..(start - end + 1) |-> start - i + 1]

\* tokens[0].lower() == word
first_is(tokens, word) == Len(tokens) >= 1 /\ tokens[1] = Text(word)

\* The integers among the tokens, in order, each unwrapped (the link-mode scan)
RECURSIVE scan_ints(_, _)
scan_ints(tokens, db_channel_id) ==
    IF tokens = <<>> THEN <<>>
    ELSE IF IsInt(Head(tokens))
    THEN <<_maybe_unwrap_token(int(Head(tokens)), db_channel_id)>>
         \o scan_ints(Tail(tokens), db_channel_id)
    ELSE scan_ints(Tail(tokens), db_channel_id)

\* FileRequestHandler.parse_message_ids; <<>> stands for None (the caller tests
\* `not ids`, and no accepted shape yields an empty list)
parse_message_ids(tokens, db_channel_id, link_mode) ==
    LET unwrap(i) == _maybe_unwrap_token(int(tokens[i]), db_channel_id)
        ints == scan_ints(tokens, db_channel_id)
    IN IF first_is(tokens, "set")
       THEN IF Len(tokens) >= 4
            THEN IF IsInt(tokens[3]) /\ IsInt(tokens[4])
                 THEN id_range(unwrap(3), unwrap(4)) ELSE <<>>
            ELSE IF Len(tokens) >= 3
            THEN IF IsInt(tokens[3]) THEN <<unwrap(3)>> ELSE <<>>
            ELSE <<>>
       ELSE IF first_is(tokens, "get")
       THEN IF Len(tokens) >= 3
            THEN IF IsInt(tokens[2]) /\ IsInt(tokens[3])
                 THEN id_range(unwrap(2), unwrap(3)) ELSE <<>>
            ELSE IF Len(tokens) >= 2
            THEN IF IsInt(tokens[2]) THEN <<unwrap(2)>> ELSE <<>>
            ELSE <<>>
       ELSE IF link_mode
       THEN IF ints = <<>> THEN <<>>
            ELSE IF Len(ints) = 1 THEN <<ints[1]>>
            ELSE id_range(ints[1], ints[2])
       ELSE IF Len(tokens) >= 2
       THEN IF IsInt(tokens[2]) THEN <<unwrap(2)>> ELSE <<>>
       ELSE <<>>

\* What the chat platform does to one delivery: get_messages raises, returns
\* nothing, or returns the items (fetch); fail_at is the position of the first
\* item whose copy fails for good (0: every copy succeeds); the first copy of
\* each item at a position of flood_at raises FloodWait with the duration x;
\* second is what the second copy of the item at fail_at does.
Fetches == {"ok", "raise", "empty"}
Delivery(fetch, fail_at, flood_at, x, second) ==
    [fetch |-> fetch, fail_at |-> fail_at, flood_at |-> flood_at, x |-> x,
     second |-> second]
Deliveries ==
    {Delivery(f, 0, {}, 0, "error") : f \in Fetches}
    \cup {Delivery("ok", i, {}, 0, "error") : i \in 1..MaxMsgId}

\* What msg.copy does at its first and at its second call for the item at
\* position i: "ok", "flood" (FloodWait) or "error" (any other exception)
first_copy(delivery, i) ==
    IF i \in delivery.flood_at THEN "flood"
    ELSE IF i = delivery.fail_at THEN "error"
    ELSE "ok"
second_copy(delivery, i) == IF i = delivery.fail_at THEN delivery.second ELSE "ok"

\* The calls a delivery makes, in order: msg.copy of an item with its result,
\* asyncio.sleep(e.x)
Copy(id, result) == [ev |-> "copy", id |-> id, x |-> 0, result |-> result]
Sleep(x) == [ev |-> "sleep", id |-> 0, x |-> x, result |-> "ok"]

\* A delivery loop that tries the copy again after any exception
RECURSIVE copy_each_persistent(_, _, _)
copy_each_persistent(ids, i, delivery) ==
    IF i > Len(ids) THEN [copied |-> <<>>, trace |-> <<>>, raised |-> FALSE]
    ELSE LET first == first_copy(delivery, i)
             second == second_copy(delivery, i)
             rest == copy_each_persistent(ids, i + 1, delivery)
             again == <<Copy(ids[i], first), Sleep(delivery.x), Copy(ids[i], second)>>
         IN IF first = "ok"
            THEN [copied |-> <<ids[i]>> \o rest.copied,
                  trace |-> <<Copy(ids[i], "ok")>> \o rest.trace,
                  raised |-> rest.raised]
            ELSE IF second = "ok"
            THEN [copied |-> <<ids[i]>> \o rest.copied,
                  trace |-> again \o rest.trace,
                  raised |-> rest.raised]
            ELSE [copied |-> <<>>, trace |-> again, raised |-> TRUE]

\* The loop of process_file_request over messages[i..]: msg.copy in a try,
\* `except FloodWait as e` sleeping e.x and copying once more outside any try;
\* an exception that is not caught ends the handler
RECURSIVE copy_each(_, _, _)
copy_each(ids, i, delivery) ==
    IF i > Len(ids) THEN [copied |-> <<>>, trace |-> <<>>, raised |-> FALSE]
    ELSE LET first == first_copy(delivery, i)
             second == second_copy(delivery, i)
             rest == copy_each(ids, i + 1, delivery)
             again == <<Copy(ids[i], first), Sleep(delivery.x), Copy(ids[i], second)>>
         IN IF first = "ok"
            THEN [copied |-> <<ids[i]>> \o rest.copied,
                  trace |-> <<Copy(ids[i], "ok")>> \o rest.trace,
                  raised |-> rest.raised]
            ELSE IF first = "error"
            THEN [copied |-> <<>>, trace |-> <<Copy(ids[i], "error")>>, raised |-> TRUE]
            ELSE IF second = "ok"
            THEN [copied |-> <<ids[i]>> \o rest.copied,
                  trace |-> again \o rest.trace,
                  raised |-> rest.raised]
            ELSE [copied |-> <<>>, trace |-> again, raised |-> TRUE]

\* SidDataBase._get_boolean_value on the auto_delete collection, and
\* SidDataBase.set_auto_delete
get_auto_delete(collection) == IF collection = Absent THEN Bool(FALSE) ELSE collection
set_auto_delete(collection, value) == Bool(value)

\* process_file_request that leaves AUTO_DEL as stored for every requester
process_file_request_flagged(o, argument, link_mode, is_premium, delivery, auto_delete) ==
    LET ids == parse_message_ids(argument, DB_CHANNEL_ID, link_mode)
        d == [o EXCEPT !.delivery = TRUE, !.link_mode = link_mode,
                       !.as_premium = is_premium, !.ids = ids]
        AUTO_DEL == Truthy(get_auto_delete(auto_delete))
        loop == copy_each(ids, 1, delivery)
        copied == loop.copied
        last_message == IF AUTO_DEL /\ Len(copied) = Len(ids)
                        THEN <<copied[Len(copied)]>> ELSE <<>>
        sent == [d EXCEPT !.copied = copied, !.trace = loop.trace,
                          !.outcomes = delivery,
                          !.delete_tasks = IF AUTO_DEL THEN copied ELSE <<>>]
    IN IF ids = <<>> THEN [d EXCEPT !.reply = "invalid_file_ref"]
       ELSE IF delivery.fetch = "raise" THEN [d EXCEPT !.reply = "went_wrong"]
       ELSE IF delivery.fetch = "empty" THEN [d EXCEPT !.reply = "not_found"]
       ELSE IF loop.raised
       THEN [sent EXCEPT !.reply = "copy_failed"]
       ELSE [sent EXCEPT !.reply = "files_sent", !.last_message = last_message,
                         !.notification = AUTO_DEL /\ last_message # <<>>]

\* process_file_request; auto_delete is the auto_delete collection it reads.
\* Every copied message gets its delete_message task when AUTO_DEL holds;
\* last_message is the copy made at the last position, <<>> for None, and the
\* notification is scheduled after the loop when it is set.
process_file_request(o, argument, link_mode, is_premium, delivery, auto_delete) ==
    LET ids == parse_message_ids(argument, DB_CHANNEL_ID, link_mode)
        d == [o EXCEPT !.delivery = TRUE, !.link_mode = link_mode,
                       !.as_premium = is_premium, !.ids = ids]
        AUTO_DEL == IF is_premium THEN FALSE ELSE Truthy(get_auto_delete(auto_delete))
        loop == copy_each(ids, 1, delivery)
        copied == loop.copied
        last_message == IF AUTO_DEL /\ Len(copied) = Len(ids)
                        THEN <<copied[Len(copied)]>> ELSE <<>>
        sent == [d EXCEPT !.copied = copied, !.trace = loop.trace,
                          !.outcomes = delivery,
                          !.delete_tasks = IF AUTO_DEL THEN copied ELSE <<>>]
    IN IF ids = <<>> THEN [d EXCEPT !.reply = "invalid_file_ref"]
       ELSE IF delivery.fetch = "raise" THEN [d EXCEPT !.reply = "went_wrong"]
       ELSE IF delivery.fetch = "empty" THEN [d EXCEPT !.reply = "not_found"]
       ELSE IF loop.raised
       THEN [sent EXCEPT !.reply = "copy_failed"]
       ELSE [sent EXCEPT !.reply = "files_sent", !.last_message = last_message,
                         !.notification = AUTO_DEL /\ last_message # <<>>]

\* ------------------------------------------------------- the start flow
\* ShortlinkManager.create_shortlink: the shortened link, or the original one
\* when the shortener fails (short_ok = FALSE)
create_shortlink(start, short_ok) == Url(start, short_ok)

\* handle_token_verification at clock t
handle_token_verification(db, o, t, user_id, token, short_ok) ==
    LET db1 == grant_temporary_access(db, t, user_id, token_time_of(db))
        db2 == invalidate_token(db1, user_id)
        pending_encoded == get_variable(db2, Key("pending_req", user_id), None)
    IN IF verify_token(db, user_id, token)
       THEN IF Truthy(pending_encoded)
            THEN [db |-> set_variable(db2, Key("pending_req", user_id), None),
                  out |-> [o EXCEPT !.reply = "verified_get_file",
                             !.shortlinks = 1,
                             !.link = create_shortlink(
                                 Prefixed("verify_", pending_encoded), short_ok)]]
            ELSE [db |-> db2, out |-> [o EXCEPT !.reply = "verified"]]
       ELSE [db |-> db, out |-> [o EXCEPT !.reply = "token_invalid"]]

\* handle_session_expired with generate_hash() = h
handle_session_expired(db, o, user_id, decoded_string, h, short_ok) ==
    LET db1 == generate_verification_token(db, user_id, h)
        token == get_variable(db1, Key("verify_token", user_id), None)
        pending_encoded == encode(set_prefixed(decoded_string))
    IN [db |-> set_variable(db1, Key("pending_req", user_id), pending_encoded),
        out |-> [o EXCEPT !.reply = "session_expired", !.shortlinks = 1,
                   !.link = create_shortlink(token, short_ok)]]

\* handle_link_mode wrapping the payload as it came, without the "set-" word
handle_link_mode_plain(db, o, user_id, decoded_string, is_premium, short_ok) ==
    LET file_start == Prefixed("verify_", encode(decoded_string))
    IN IF is_premium
       THEN [db |-> db,
             out |-> [o EXCEPT !.reply = "premium_direct_link",
                        !.link = Url(file_start, FALSE)]]
       ELSE [db |-> db,
             out |-> [o EXCEPT !.reply = "download_link", !.shortlinks = 1,
                        !.link = create_shortlink(file_start, short_ok)]]

\* handle_link_mode
handle_link_mode(db, o, user_id, decoded_string, is_premium, short_ok) ==
    LET encoded_string == encode(set_prefixed(decoded_string))
        file_start == Prefixed("verify_", encoded_string)
    IN IF is_premium
       THEN [db |-> db,
             out |-> [o EXCEPT !.reply = "premium_direct_link",
                        !.link = Url(file_start, FALSE)]]
       ELSE [db |-> db,
             out |-> [o EXCEPT !.reply = "download_link", !.shortlinks = 1,
                        !.link = create_shortlink(file_start, short_ok)]]

\* The mode start_command works with: the stored one, or the default when the
\* stored one is falsy
mode_of(db) ==
    LET mode == get_variable(db, Key("mode", 0), Text(""))
    IN IF ~Truthy(mode) THEN Text(VERIFICATION_MODE) ELSE mode

\* "set" not in argument
has_set(argument) == \E i \in 1..Len(argument) : argument[i] = Text("set")

\* start_command on "/start" (payload = None) or "/start <payload>", at clock t.
\* env gives what the outside world answers in this run.
start_command(db, t, user_id, payload, env) ==
    LET o == [Ran("start_command", user_id) EXCEPT !.target = user_id,
                                                    !.start = payload]
        base64_string == removeprefix(removeprefix(payload, "verify_"), "time_")
        argument == decode(base64_string)
        mode == mode_of(db)
        prem == is_premium_user(db, t, user_id, env.fault)
        is_premium == prem.result.is_premium
        om == [o EXCEPT !.payload = argument, !.mode = mode.s, !.result = prem.result]
        session_valid == check_session_validity(prem.db, t, user_id)
        os == [om EXCEPT !.session_read = TRUE]
    IN IF payload = None
       THEN [db |-> prem.db, out |-> [o EXCEPT !.reply = "welcome", !.result = prem.result]]
       ELSE IF startswith(payload, "time_")
       THEN handle_token_verification(db, o, t, user_id, payload, env.short_ok)
       ELSE IF ~can_decode(base64_string)
       THEN [db |-> db, out |-> [o EXCEPT !.reply = "invalid_link"]]
       ELSE IF is_premium
       THEN [db |-> prem.db,
             out |-> process_file_request(om, argument, mode = Text("link"), TRUE,
                                          env.delivery, env.auto_delete_data)]
       ELSE IF mode = Text("off")
       THEN [db |-> prem.db,
             out |-> process_file_request(om, argument, FALSE, FALSE,
                                          env.delivery, env.auto_delete_data)]
       ELSE IF mode = Text("link") /\ ~has_set(argument)
       THEN handle_link_mode(prem.db, os, user_id, argument, is_premium, env.short_ok)
       ELSE IF mode = Text("24") /\ ~session_valid
       THEN handle_session_expired(prem.db, os, user_id, argument, env.h, env.short_ok)
       ELSE [db |-> prem.db,
             out |-> process_file_request(os, argument, mode = Text("link"), FALSE,
                                          env.delivery, env.auto_delete_data)]

\* helper_func.subscribed, the filter in front of start_command: the user has
\* joined every force-subscribe channel
subscribed(channels, member, user_id) == channels \subseteq member[user_id]

\* get_all_channels as a list: the ids in the order the collection yields them,
\* here ascending
RECURSIVE get_all_channels(_)
get_all_channels(channels) ==
    IF channels = {} THEN <<>>
    ELSE LET first == CHOOSE c \in channels : \A d \in channels : c <= d
         IN <<first>> \o get_all_channels(channels \ {first})

\* What get_chat (or the cache) answers for a channel: a public chat, a
\* private one (no username), or an exception
ChatKinds == {"public", "private", "error"}

\* InlineKeyboardButton(text, url), both named by kind and channel
InlineKeyboardButton(text, url) == [text |-> text, url |-> url]

\* The loop of not_joined with a button for every channel, joined or not
RECURSIVE channel_buttons_all(_, _, _, _, _, _)
channel_buttons_all(all_channels, i, member, chats, REQFSUB, buttons) ==
    IF i > Len(all_channels) THEN [error |-> FALSE, buttons |-> buttons]
    ELSE LET chat_id == all_channels[i]
         IN IF chats[chat_id] = "error" THEN [error |-> TRUE, buttons |-> <<>>]
            ELSE channel_buttons_all(all_channels, i + 1, member, chats, REQFSUB,
                     Append(buttons,
                            InlineKeyboardButton(Label("title", chat_id),
                                                 Label("invite_link", chat_id))))

\* The loop of not_joined from channel i on: a button for each channel the
\* user has not joined, the link being the stored or created join-request
\* link when REQFSUB is on and the chat has no username, the chat's invite
\* link otherwise; an exception while resolving a channel ends the handler.
\* (The request-channel collection the first branch writes to is not part of
\* the state here.)
RECURSIVE channel_buttons(_, _, _, _, _, _)
channel_buttons(all_channels, i, member, chats, REQFSUB, buttons) ==
    IF i > Len(all_channels) THEN [error |-> FALSE, buttons |-> buttons]
    ELSE LET chat_id == all_channels[i]
         IN IF chat_id \in member
            THEN channel_buttons(all_channels, i + 1, member, chats, REQFSUB, buttons)
            ELSE IF chats[chat_id] = "error"
            THEN [error |-> TRUE, buttons |-> <<>>]
            ELSE LET link == IF REQFSUB /\ chats[chat_id] = "private"
                             THEN Label("request_link", chat_id)
                             ELSE Label("invite_link", chat_id)
                 IN channel_buttons(all_channels, i + 1, member, chats, REQFSUB,
                        Append(buttons,
                               InlineKeyboardButton(Label("title", chat_id), link)))

\* not_joined: the force-subscribe prompt for the channels in all_channels,
\* member being the channels is_userJoin finds the user in
not_joined(db, t, user_id, all_channels, member, chats, REQFSUB) ==
    LET loop == channel_buttons(all_channels, 1, member, chats, REQFSUB, <<>>)
        ran == [Ran("not_joined", user_id) EXCEPT
                  !.target = user_id,
                  !.args = <<all_channels, member, chats, REQFSUB>>]
    IN [db |-> db,
        out |-> IF loop.error
                THEN [ran EXCEPT !.reply = "error"]
                ELSE [ran EXCEPT
                        !.reply = "force_subscribe",
                        !.buttons = Append(loop.buttons,
                                           InlineKeyboardButton(Label("try_again", 0),
                                                                Label("start", 0))),
                        !.count = Len(loop.buttons),
                        !.total = Len(all_channels)]]

\* ------------------------------------------- the callback router (new.py)
\* Callback data is a string given character by character.
\* data.startswith(prefix)
startswith_chars(data, prefix) ==
    Len(data) >= Len(prefix) /\ SubSeq(data, 1, Len(prefix)) = prefix

\* data.split("_")[1] for data with an underscore in it: the characters
\* between the first underscore and the second, or the end
split_1(data) ==
    LET first == CHOOSE i \in 1..Len(data) :
                    data[i] = "_" /\ \A j \in 1..(i - 1) : data[j] # "_"
        Ends == {i \in (first + 1)..Len(data) : data[i] = "_"}
        end == IF Ends = {} THEN Len(data) + 1
               ELSE CHOOSE i \in Ends : \A j \in Ends : i <= j
    IN SubSeq(data, first + 1, end - 1)

\* The action a handler compares the piece with, "other" for one it knows not
ActionWords ==
    {<<"web", <<"w", "e", "b">>>>,
     <<"api", <<"a", "p", "i">>>>,
     <<"rem", <<"r", "e", "m">>>>,
     <<"link", <<"l", "i", "n", "k">>>>,
     <<"24", <<"2", "4">>>>}
action_of(chars) ==
    IF \E w \in ActionWords : w[2] = chars
    THEN (CHOOSE w \in ActionWords : w[2] = chars)[1]
    ELSE "other"

\* plugins.prem.prem: the message is replaced by the purchase information
prem(db, from_user) ==
    [db |-> db, out |-> [Ran("prem", from_user) EXCEPT !.reply = "premium_info"]]

\* The handler global_callback_handler hands the query to, without the
\* exception for "short_rem"
route_of_plain(data) ==
    IF startswith_chars(data, <<"s", "h", "o", "r", "t", "_">>) THEN "short2"
    ELSE IF startswith_chars(data, <<"m", "o", "d", "e", "_">>) THEN "short4"
    ELSE IF startswith_chars(data, <<"p", "r", "e", "m">>) THEN "prem"
    ELSE "continue_propagation"

\* The handler global_callback_handler hands the query to, or
\* continue_propagation
route_of(data) ==
    IF startswith_chars(data, <<"s", "h", "o", "r", "t", "_">>)
    THEN IF data # <<"s", "h", "o", "r", "t", "_", "r", "e", "m">>
         THEN "short2"
         ELSE "short3"
    ELSE IF startswith_chars(data, <<"m", "o", "d", "e", "_">>) THEN "short4"
    ELSE IF startswith_chars(data, <<"p", "r", "e", "m">>) THEN "prem"
    ELSE "continue_propagation"

\* global_callback_handler: the run of the handler the data selects, or the
\* query passed on untouched
global_callback_handler(db, from_user, data, replies, prompt_ok) ==
    LET route == route_of(data)
        r == CASE route = "short2" ->
                    short2(db, from_user, action_of(split_1(data)), replies, prompt_ok)
               [] route = "short3" -> short3(db, from_user)
               [] route = "short4" ->
                    short4(db, from_user, action_of(split_1(data)), replies, prompt_ok)
               [] route = "prem" -> prem(db, from_user)
               [] OTHER ->
                    [db |-> db, out |-> Ran("continue_propagation", from_user)]
    IN [db |-> r.db, out |-> [r.out EXCEPT !.route = route, !.args = <<data>>]]

\* ------------------------------------------------------------- the inputs
\* A command run is <<args, fault>>. A storage fault is paired only with
\* well-formed arguments: a run that stops at an argument check never reaches
\* the store.
GoodDurations == {Dur(1, "s"), Dur(2, "s")}
BadDurations == {Dur(0, "s"), Text("abc")}
GrantArgs == {<<str(u), d>> : u \in Users, d \in GoodDurations}
BadGrantArgs ==
    {<<>>, <<str(1)>>, <<Text("abc"), Dur(1, "s")>>}
    \cup {<<str(1), d>> : d \in BadDurations}
GrantRuns == (GrantArgs \X Faults) \cup (BadGrantArgs \X {"none"})
RevokeRuns ==
    ({<<str(u)>> : u \in Users} \X Faults) \cup ({<<>>, <<Text("abc")>>} \X {"none"})
ExtendCallbacks ==
    ((Users \X GoodDurations) \X Faults) \cup ((Users \X BadDurations) \X {"none"})
Requests ==
    {<<Text("get"), NumStr(1)>>,
     <<Text("get"), NumStr(1), NumStr(MaxMsgId)>>,
     <<Text("get"), Text("abc")>>}
Tokens == {Prefixed("time_", Text(h)) : h \in Hashes}
StartPayloads ==
    {None, Text("abc")} \cup Tokens
    \cup {encode(r) : r \in Requests}
    \cup {Prefixed("verify_", encode(set_prefixed(r))) : r \in Requests}
\* What the outside world answers in one run of start_command. A run either
\* delivers (and then asks for no hash and no shortlink) or does not (and then
\* fetches nothing), and a storage fault is met in an otherwise nominal run.
NominalDelivery == Delivery("ok", 0, {}, 0, "error")
Envs ==
    {[fault |-> "none", h |-> h, short_ok |-> s, delivery |-> NominalDelivery] :
        h \in Hashes, s \in BOOLEAN}
    \cup {[fault |-> "none", h |-> "h1", short_ok |-> TRUE, delivery |-> d] :
        d \in Deliveries}
    \cup {[fault |-> f, h |-> "h1", short_ok |-> TRUE, delivery |-> NominalDelivery] :
        f \in Faults}
ModeValues == {Absent, None, Text("24"), Text("link")}
TokenTimeValues == {Absent, NumStr(1)}

\* Every stored premium expiry is within the bound of the model
ExpiriesBounded(db) ==
    LET premium_set == _get_premium_set(db)
    IN \A i \in 1..Len(premium_set) :
          premium_set[i].v.expiry.tag = "iso" =>
              fromisoformat(premium_set[i].v.expiry) <= MaxExpiry

\* ------------------------------------------------------------------ Init
\* The store holding the given mode, token_time and premium map and nothing else
StoreWith(mode, token_time, premium_set) ==
    [k \in Keys |->
       IF k = Key("mode", 0) THEN mode
       ELSE IF k = Key("token_time", 0) THEN token_time
       ELSE IF k = PREMIUM_SET_KEY THEN premium_set
       ELSE Absent]

\* The handler runs that can be in flight at once, and one that is not running
Tasks == {1, 2}
NoTask ==
    [pc |-> "idle", user |-> 0, token |-> None, token_time |-> 0, pending |-> None,
     op |-> "none", target |-> 0, t |-> 0, read |-> Absent, button |-> None,
     writes |-> <<>>]

\* The background loops of the premium system, each asleep in its try block
\* (pc "sleep") or in its except block (pc "retry_sleep") until the clock
\* reaches wake; started is the clock at which the iteration under way began,
\* gap the time between that start and the one before (0 for the first), and
\* raised whether the iteration before it raised. NoMonitors: none started.
Monitors == {"premium_expiry_monitor", "notify_expiring_soon"}
NoMonitors ==
    [m \in Monitors |->
       [pc |-> "off", wake |-> 0, started |-> 0, gap |-> 0, raised |-> FALSE]]

\* A call of a function that keeps no state: its name and its arguments
Call(fn, args) == [fn |-> fn, args |-> args]
NoCall == Call("", <<>>)

InitWith(db, channels) ==
    /\ call = NoCall
    /\ now = 0
    /\ variables_data = db
    /\ user_data = {}
    /\ channel_data = channels
    /\ joined = [u \in Users |-> {}]
    /\ out = NoOut
    /\ monitor = NoMonitors
    /\ tasks = [k \in Tasks |-> NoTask]
    /\ history = [issued |-> 0, granted |-> 0, begun |-> 0, done |-> {}]
    /\ channel_button_link_data = <<>>
    /\ auto_delete_data = Absent

\* A fresh database
Init == InitWith(StoreWith(Absent, Absent, Absent), Channels)

\* ------------------------------------------------------------ the actions
\* The clock advances.
Tick ==
    /\ now < MaxTime
    /\ now' = now + 1
    /\ out' = [NoOut EXCEPT !.handler = "tick"]
    /\ UNCHANGED <<monitor, call, auto_delete_data, channel_button_link_data, variables_data, user_data, channel_data, joined, tasks, history>>

\* A user of U joins or leaves a force-subscribe channel.
JoinBy(U) ==
    \E u \in U, c \in Channels :
        /\ c \notin joined[u]
        /\ joined' = [joined EXCEPT ![u] = @ \cup {c}]
        /\ out' = [NoOut EXCEPT !.handler = "join"]
        /\ UNCHANGED <<monitor, call, auto_delete_data, channel_button_link_data, now, variables_data, user_data, channel_data, tasks, history>>

LeaveBy(U) ==
    \E u \in U, c \in Channels :
        /\ c \in joined[u]
        /\ joined' = [joined EXCEPT ![u] = @ \ {c}]
        /\ out' = [NoOut EXCEPT !.handler = "leave"]
        /\ UNCHANGED <<monitor, call, auto_delete_data, channel_button_link_data, now, variables_data, user_data, channel_data, tasks, history>>

\* Applies a handler's run r = [db, out] that met the storage fault given;
\* the run is worked out once for the step.
Handled(r, fault) ==
    \E run \in {r} :
        /\ ExpiriesBounded(run.db)
        /\ variables_data' = run.db
        /\ out' = [run.out EXCEPT !.fault = fault]

\* What a run of start_command meets: the answers of the outside world and
\* the auto_delete collection as stored
Served(env) ==
    [fault |-> env.fault, h |-> env.h, short_ok |-> env.short_ok,
     delivery |-> env.delivery, auto_delete_data |-> auto_delete_data]

\* A private /start message from a user of U with a payload of P, the outside
\* world answering as one of E: start_command when the subscribed filter passes
\* (it registers the user first), not_joined otherwise.
StartBy(U, P, E) ==
    \E u \in U, payload \in P, env \in E :
        /\ IF subscribed(channel_data, joined, u)
           THEN /\ Handled(start_command(variables_data, now, u, payload, Served(env)),
                           env.fault)
                /\ user_data' = user_data \cup {u}
           ELSE /\ Handled(not_joined(variables_data, now, u,
                                       get_all_channels(channel_data), joined[u],
                                       [c \in channel_data |-> "public"], FALSE),
                            "none")
                /\ user_data' = user_data
        /\ UNCHANGED <<monitor, call, auto_delete_data, channel_button_link_data, now, channel_data, joined, tasks, history>>

AddPremiumCommandBy(U, runs) ==
    \E u \in U, run \in runs :
        /\ Handled(add_premium_command(variables_data, now, u, run[1], run[2]), run[2])
        /\ UNCHANGED <<monitor, call, auto_delete_data, channel_button_link_data, now, user_data, channel_data, joined, tasks, history>>

RemovePremiumCommandBy(U, runs) ==
    \E u \in U, run \in runs :
        /\ Handled(remove_premium_command(variables_data, now, u, run[1], run[2]), run[2])
        /\ UNCHANGED <<monitor, call, auto_delete_data, channel_button_link_data, now, user_data, channel_data, joined, tasks, history>>

MyPremiumCommandBy(U, F) ==
    \E u \in U, fault \in F :
        /\ Handled(my_premium_command(variables_data, now, u, fault), fault)
        /\ UNCHANGED <<monitor, call, auto_delete_data, channel_button_link_data, now, user_data, channel_data, joined, tasks, history>>

ListPremiumCommand ==
    \E u \in Users, fault \in Faults :
        /\ Handled(list_premium_command(variables_data, now, u, fault), fault)
        /\ UNCHANGED <<monitor, call, auto_delete_data, channel_button_link_data, now, user_data, channel_data, joined, tasks, history>>

ExtendPremiumCommandBy(U, runs) ==
    \E u \in U, run \in runs :
        /\ Handled(extend_premium_command(variables_data, now, u, run[1], run[2]), run[2])
        /\ UNCHANGED <<monitor, call, auto_delete_data, channel_button_link_data, now, user_data, channel_data, joined, tasks, history>>

\* A press of a button whose data is extend_<user_id>_<duration>
ExtendPremiumCallbackBy(U, runs) ==
    \E u \in U, run \in runs :
        /\ Handled(extend_premium_callback(variables_data, now, u,
                                           run[1][1], run[1][2], run[2]),
                   run[2])
        /\ UNCHANGED <<monitor, call, auto_delete_data, channel_button_link_data, now, user_data, channel_data, joined, tasks, history>>

AddPremiumCommand == AddPremiumCommandBy(Users, GrantRuns)
RemovePremiumCommand == RemovePremiumCommandBy(Users, RevokeRuns)
MyPremiumCommand == MyPremiumCommandBy(Users, Faults)
ExtendPremiumCommand == ExtendPremiumCommandBy(Users, GrantRuns)
ExtendPremiumCallback == ExtendPremiumCallbackBy(Users, ExtendCallbacks)

\* The premium manager and its commands
Next ==
    \/ Tick
    \/ AddPremiumCommand
    \/ RemovePremiumCommand
    \/ MyPremiumCommand
    \/ ListPremiumCommand
    \/ ExtendPremiumCommand
    \/ ExtendPremiumCallback

Spec == Init /\ [][Next]_vars

\* The start flow: any stored mode and verification time, user 2 premium until
\* time 1 or nobody premium
PremiumUntil(user_id, expiry) ==
    Dict(<<[k |-> str(user_id),
            v |-> [expiry |-> isoformat(expiry), added_by |-> 1,
                   added_at |-> isoformat(0), duration_seconds |-> expiry]]>>)

InitStart ==
    \E mode \in ModeValues, token_time \in TokenTimeValues,
       premium_set \in {Absent, PremiumUntil(2, 1)} :
        InitWith(StoreWith(mode, token_time, premium_set), Channels)

JoinChannel == JoinBy({2})
LeaveChannel == LeaveBy({2})
Start == StartBy({2}, StartPayloads, Envs)

NextStart ==
    \/ Tick
    \/ JoinChannel
    \/ LeaveChannel
    \/ Start

SpecStart == InitStart /\ [][NextStart]_vars

\* The verification flow of mode "24": two users, no force-subscribe channel,
\* nobody premium, token links and one file request
VerificationPayloads ==
    Tokens \cup {encode(<<Text("get"), NumStr(1)>>),
                 Prefixed("verify_", encode(<<Text("set"), Text("get"), NumStr(1)>>))}
VerificationEnvs == {env \in Envs : env.fault = "none"}

InitVerification ==
    \E token_time \in TokenTimeValues :
        InitWith(StoreWith(Text("24"), token_time, Absent), {})

StartVerification == StartBy(Users, VerificationPayloads, VerificationEnvs)

NextVerification ==
    \/ Tick
    \/ StartVerification

SpecVerification == InitVerification /\ [][NextVerification]_vars

\* A pending request from its storing to the opening of the link offered for
\* it: one user who is no admin, mode "24" with a verification time of one
\* second, item requests of one id and of a range, the links a verification
\* has offered for them, and the link the last verification offered.
PendingRequests ==
    {<<Text("get"), NumStr(1)>>, <<Text("get"), NumStr(1), NumStr(MaxMsgId)>>}
OfferedLink == IF out.reply = "verified_get_file" THEN {out.link.start} ELSE {}
PendingPayloads ==
    Tokens
    \cup {encode(r) : r \in PendingRequests}
    \cup {Prefixed("verify_", encode(set_prefixed(r))) : r \in PendingRequests}
    \cup OfferedLink
PendingEnvs == {env \in Envs : env.fault = "none" /\ env.delivery = NominalDelivery}

InitPending == InitWith(StoreWith(Text("24"), NumStr(1), Absent), {})

StartPending == StartBy({2}, PendingPayloads, PendingEnvs)

NextPending ==
    \/ Tick
    \/ StartPending

SpecPending == InitPending /\ [][NextPending]_vars

\* Token verification one await at a time: handle_token_verification runs as
\* a task that yields at each database call, so two runs can interleave. One
\* user, mode "24", no force-subscribe channel, nobody premium.
Verifiers == {1}
Reply(task, reply) ==
    [Ran("start_command", task.user) EXCEPT
       !.target = task.user, !.start = task.token, !.reply = reply]

\* An item request handled in one piece; it issues a token when the session
\* is not valid.
RequestItem ==
    \E u \in Verifiers, h \in Hashes :
        LET r == start_command(variables_data, now, u,
                               encode(<<Text("get"), NumStr(1)>>),
                               Served([fault |-> "none", h |-> h, short_ok |-> TRUE,
                                       delivery |-> NominalDelivery]))
            issues == r.out.reply = "session_expired"
        IN /\ issues => history.issued < MaxIssued
           /\ Handled(r, "none")
           /\ user_data' = user_data \cup {u}
           /\ history' = IF issues THEN [history EXCEPT !.issued = @ + 1]
                         ELSE history
           /\ UNCHANGED <<monitor, call, auto_delete_data, channel_button_link_data, now, channel_data, joined, tasks>>

\* "/start time_<hash>" arrives and start_command calls
\* handle_token_verification
BeginVerification ==
    \E k \in Tasks, u \in Verifiers, token \in Tokens :
        /\ tasks[k].pc = "idle"
        /\ tasks' = [tasks EXCEPT ![k] = [NoTask EXCEPT !.pc = "verify_token",
                                             !.user = u, !.token = token]]
        /\ user_data' = user_data \cup {u}
        /\ UNCHANGED <<monitor, call, auto_delete_data, channel_button_link_data, now, variables_data, channel_data, joined, out, history>>

\* `if await TokenManager.verify_token(user_id, token)`, and the else branch
VerifyToken ==
    \E k \in Tasks :
        /\ tasks[k].pc = "verify_token"
        /\ IF verify_token(variables_data, tasks[k].user, tasks[k].token)
           THEN /\ tasks' = [tasks EXCEPT ![k].pc = "token_time"]
                /\ out' = out
           ELSE /\ tasks' = [tasks EXCEPT ![k] = NoTask]
                /\ out' = Reply(tasks[k], "token_invalid")
        /\ UNCHANGED <<monitor, call, auto_delete_data, channel_button_link_data, now, variables_data, user_data, channel_data, joined, history>>

\* `token_time = await kingdb.get_variable("token_time") or Config.TOKEN_TIME`
ReadTokenTime ==
    \E k \in Tasks :
        /\ tasks[k].pc = "token_time"
        /\ tasks' = [tasks EXCEPT ![k].pc = "grant",
                                  ![k].token_time = token_time_of(variables_data)]
        /\ UNCHANGED <<monitor, call, auto_delete_data, channel_button_link_data, now, variables_data, user_data, channel_data, joined, out,
                       history>>

\* `await AccessManager.grant_temporary_access(user_id, int(token_time))`
GrantAccess ==
    \E k \in Tasks :
        /\ tasks[k].pc = "grant"
        /\ variables_data' = grant_temporary_access(variables_data, now,
                                 tasks[k].user, tasks[k].token_time)
        /\ history' = [history EXCEPT !.granted = @ + 1]
        /\ tasks' = [tasks EXCEPT ![k].pc = "invalidate"]
        /\ UNCHANGED <<monitor, call, auto_delete_data, channel_button_link_data, now, user_data, channel_data, joined, out>>

\* `await TokenManager.invalidate_token(user_id)`
InvalidateToken ==
    \E k \in Tasks :
        /\ tasks[k].pc = "invalidate"
        /\ variables_data' = invalidate_token(variables_data, tasks[k].user)
        /\ tasks' = [tasks EXCEPT ![k].pc = "pending"]
        /\ UNCHANGED <<monitor, call, auto_delete_data, channel_button_link_data, now, user_data, channel_data, joined, out, history>>

\* `pending_encoded = await kingdb.get_variable(f"pending_req_{user_id}")`, and
\* the reply when there is none
ReadPending ==
    \E k \in Tasks :
        LET pending_encoded ==
                get_variable(variables_data, Key("pending_req", tasks[k].user), None)
        IN /\ tasks[k].pc = "pending"
           /\ IF Truthy(pending_encoded)
              THEN /\ tasks' = [tasks EXCEPT ![k].pc = "clear_pending",
                                             ![k].pending = pending_encoded]
                   /\ out' = out
              ELSE /\ tasks' = [tasks EXCEPT ![k] = NoTask]
                   /\ out' = Reply(tasks[k], "verified")
           /\ UNCHANGED <<monitor, call, auto_delete_data, channel_button_link_data, now, variables_data, user_data, channel_data, joined,
                          history>>

\* The shortlink, `await kingdb.set_variable(f"pending_req_{user_id}", None)`
\* and the reply with the GET FILE button
ClearPending ==
    \E k \in Tasks :
        /\ tasks[k].pc = "clear_pending"
        /\ variables_data' = set_variable(variables_data,
                                 Key("pending_req", tasks[k].user), None)
        /\ tasks' = [tasks EXCEPT ![k] = NoTask]
        /\ out' = [Reply(tasks[k], "verified_get_file") EXCEPT
                     !.shortlinks = 1,
                     !.link = create_shortlink(
                                  Prefixed("verify_", tasks[k].pending), TRUE)]
        /\ UNCHANGED <<monitor, call, auto_delete_data, channel_button_link_data, now, user_data, channel_data, joined, history>>

InitRace == InitWith(StoreWith(Text("24"), Absent, Absent), {})

NextRace ==
    \/ Tick
    \/ RequestItem
    \/ BeginVerification
    \/ VerifyToken
    \/ ReadTokenTime
    \/ GrantAccess
    \/ InvalidateToken
    \/ ReadPending
    \/ ClearPending

SpecRace == InitRace /\ [][NextRace]_vars

\* The premium manager one await at a time: every operation reads the whole
\* map with _get_premium_set, changes its copy and writes the whole map back
\* with _save_premium_set, so two operations can interleave between the read
\* and the write. Durations are 1 second; the caller is the admin.
PremiumOps == {"grant", "revoke", "extend", "sweep"}

\* What the operation of a task does to the store db it believes in
PremiumOp(task, db) ==
    CASE task.op = "grant" ->
           add_premium(db, task.t, task.target, 1, 1, "none")
      [] task.op \in {"revoke", "sweep"} ->
           remove_premium(db, task.target, "none")
      [] task.op = "extend" ->
           IF DictHas(_get_premium_set(db), str(task.target))
           THEN [db |-> extend_in_set(db, task.target, 1),
                 result |-> [NoResult EXCEPT !.success = TRUE]]
           ELSE [db |-> db, result |-> NoResult]

\* A grant, revoke or extend is called, or check_premium has found the record
\* of the target expired and calls remove_premium
BeginPremiumOp ==
    \E k \in Tasks, op \in PremiumOps, u \in Users :
        /\ tasks[k].pc = "idle"
        /\ op = "sweep" =>
              /\ DictHas(_get_premium_set(variables_data), str(u))
              /\ fromisoformat(DictGet(_get_premium_set(variables_data),
                                       str(u)).expiry) < now
        /\ history.begun < MaxPremiumOps
        /\ history' = [history EXCEPT !.begun = @ + 1]
        /\ tasks' = [tasks EXCEPT ![k] = [NoTask EXCEPT !.pc = "read", !.op = op,
                                                        !.target = u]]
        /\ UNCHANGED <<monitor, call, auto_delete_data, channel_button_link_data, now, variables_data, user_data, channel_data, joined, out>>

\* `premium_set = await PremiumManager._get_premium_set()`
ReadPremiumSet ==
    \E k \in Tasks :
        /\ tasks[k].pc = "read"
        /\ tasks' = [tasks EXCEPT ![k].pc = "save",
                                  ![k].t = IF tasks[k].op = "grant" THEN now ELSE 0,
                                  ![k].read = variables_data[PREMIUM_SET_KEY]]
        /\ UNCHANGED <<monitor, call, auto_delete_data, channel_button_link_data, now, variables_data, user_data, channel_data, joined, out,
                       history>>

\* The change to the copy and `await PremiumManager._save_premium_set(premium_set)`,
\* or the failure that writes nothing
SavePremiumSet ==
    \E k \in Tasks :
        LET task == tasks[k]
            believed == [variables_data EXCEPT ![PREMIUM_SET_KEY] = task.read]
            r == PremiumOp(task, believed)
        IN /\ task.pc = "save"
           /\ IF r.result.success
              THEN /\ variables_data' = _save_premium_set(variables_data,
                                                          _get_premium_set(r.db))
                   /\ ExpiriesBounded(variables_data')
                   /\ history' = [history EXCEPT
                                    !.done = @ \cup {<<task.op, task.target>>}]
              ELSE UNCHANGED <<monitor, call, auto_delete_data, channel_button_link_data, variables_data, history>>
           /\ out' = [Ran(task.op, 1) EXCEPT
                        !.target = task.target, !.result = r.result,
                        !.reply = IF r.result.success THEN "done" ELSE "failed"]
           /\ tasks' = [tasks EXCEPT ![k] = NoTask]
           /\ UNCHANGED <<monitor, call, auto_delete_data, channel_button_link_data, now, user_data, channel_data, joined>>

NextPremiumRace ==
    \/ Tick
    \/ BeginPremiumOp
    \/ ReadPremiumSet
    \/ SavePremiumSet

SpecPremiumRace == Init /\ [][NextPremiumRace]_vars

\* =================================================== the premium manager
HasRecord(db, user_id) == DictHas(_get_premium_set(db), str(user_id))
RecordOf(db, user_id) == DictGet(_get_premium_set(db), str(user_id))
ExpiryOf(db, user_id) == fromisoformat(RecordOf(db, user_id).expiry)
RecordOrNone(db, user_id) ==
    IF HasRecord(db, user_id) THEN RecordOf(db, user_id) ELSE None

\* A step in which the handler named has run
Runs(handler) == out'.handler = handler

\* C8, the grant: a successful /addpremium of d seconds for u at time t stores
\* a record for u whose expiry is t + d.
GrantStoresExpiry ==
    (Runs("add_premium_command") /\ out'.reply = "added") =>
        /\ HasRecord(variables_data', out'.target)
        /\ ExpiryOf(variables_data', out'.target) = now + out'.duration
        /\ out'.result.expiry_date = now + out'.duration

\* C8, the check: with no storage fault, a check of a user whose record expires
\* at e answers is_premium with expiry e at every time up to and including e
\* and leaves the store alone; later than e it answers expired, not premium,
\* and the record is gone from the stored map.
CheckFollowsExpiry ==
    (/\ Runs("my_premium_command")
     /\ out'.fault = "none"
     /\ HasRecord(variables_data, out'.user)) =>
        LET e == ExpiryOf(variables_data, out'.user)
        IN IF now <= e
           THEN /\ out'.result.is_premium
                /\ ~out'.result.expired
                /\ out'.result.expiry_date = e
                /\ variables_data' = variables_data
           ELSE /\ ~out'.result.is_premium
                /\ out'.result.expired
                /\ ~HasRecord(variables_data', out'.user)

\* C8, the listing: list-all shows exactly the users who hold a record that has
\* not expired, so a user whose record a check removed is not listed.
ListShowsStoredOnly ==
    (Runs("list_premium_command") /\ out'.reply = "list" /\ out'.fault = "none") =>
        /\ \A i \in 1..Len(out'.listed) :
              /\ HasRecord(variables_data, out'.listed[i].user_id)
              /\ ExpiryOf(variables_data, out'.listed[i].user_id) >= now
        /\ \A u \in Users :
              (HasRecord(variables_data, u) /\ ExpiryOf(variables_data, u) >= now)
                  => \E i \in 1..Len(out'.listed) : out'.listed[i].user_id = u

\* C8: premium lifecycle. A grant of d seconds at time t stores expiry t + d;
\* every check at a time not later than the stored expiry returns
\* is_premium = true with that expiry; a check later than it returns
\* is_premium = false, expired = true and removes the record, and list-all
\* shows only users with a stored, unexpired record (no storage fault).
C8_PremiumLifecycle ==
    [][GrantStoresExpiry /\ CheckFollowsExpiry /\ ListShowsStoredOnly]_vars

\* A check at a time later than the expiry has answered expired and the record
\* of the non-admin user 2 is gone.
C8_Witness ==
    /\ out.handler = "my_premium_command"
    /\ out.user = 2
    /\ out.result.expired
    /\ ~out.result.is_premium
    /\ ~HasRecord(variables_data, 2)
    /\ now = 2

\* C9: extending user u, whose record has expiry e and duration_seconds D, by
\* d seconds on either path leaves u with expiry e + d and duration_seconds
\* D + d, whatever the time of the call; added_by, added_at and every other
\* user's record are unchanged.
C9_ExtendIsAdditive ==
    [][(out'.reply = "extended") =>
          /\ out'.handler \in {"extend_premium_command", "extend_premium_callback"}
          /\ HasRecord(variables_data, out'.target)
          /\ HasRecord(variables_data', out'.target)
          /\ LET old == RecordOf(variables_data, out'.target)
                 new == RecordOf(variables_data', out'.target)
             IN /\ fromisoformat(new.expiry) = fromisoformat(old.expiry) + out'.duration
                /\ new.duration_seconds = old.duration_seconds + out'.duration
                /\ new.added_by = old.added_by
                /\ new.added_at = old.added_at
          /\ \A u \in Users \ {out'.target} :
                RecordOrNone(variables_data', u) = RecordOrNone(variables_data, u)
      ]_vars

\* A record granted for 1 second at time 0 has been extended by 2 seconds at
\* time 1 while another user holds a record: expiry 3, total duration 3.
C9_Witness ==
    /\ out.reply = "extended"
    /\ out.duration = 2
    /\ now = 1
    /\ HasRecord(variables_data, out.target)
    /\ ExpiryOf(variables_data, out.target) = 3
    /\ RecordOf(variables_data, out.target).duration_seconds = 3
    /\ RecordOf(variables_data, out.target).added_at = isoformat(0)
    /\ \E u \in Users \ {out.target} : HasRecord(variables_data, u)

\* C10: both extend paths refuse when the target has no record or a record
\* whose expiry is in the past, and leave the premium map as it was.
C10_ExtendNeedsLiveRecord ==
    [][(/\ out'.handler \in {"extend_premium_command", "extend_premium_callback"}
        /\ \/ ~HasRecord(variables_data, out'.target)
           \/ ExpiryOf(variables_data, out'.target) < now) =>
          /\ out'.reply # "extended"
          /\ ~HasRecord(variables_data', out'.target)
             \/ RecordOf(variables_data', out'.target)
                  = RecordOrNone(variables_data, out'.target)
      ]_vars

\* C11: a revoke of a user with no entry in the premium map fails with "User
\* doesn't have premium access" and leaves the store as it was; a revoke of a
\* user with an entry succeeds, removes that entry and leaves every other
\* user's entry as it was (no storage fault).
C11_RevokeRemovesOnlyTarget ==
    [][(/\ Runs("remove_premium_command")
        /\ out'.reply \in {"removed", "failed"}
        /\ out'.fault = "none") =>
          IF HasRecord(variables_data, out'.target)
          THEN /\ out'.result.success
               /\ out'.reply = "removed"
               /\ ~HasRecord(variables_data', out'.target)
               /\ \A u \in Users \ {out'.target} :
                     RecordOrNone(variables_data', u) = RecordOrNone(variables_data, u)
          ELSE /\ ~out'.result.success
               /\ out'.result.message = "User doesn't have premium access"
               /\ variables_data' = variables_data
      ]_vars

\* One of two stored records was revoked and the other one is still there.
C11_Witness ==
    /\ out.handler = "remove_premium_command"
    /\ out.reply = "removed"
    /\ ~HasRecord(variables_data, out.target)
    /\ \E u \in Users \ {out.target} : HasRecord(variables_data, u)

\* The users whose stored record has not expired
LiveUsers(db, t) == {u \in Users : HasRecord(db, u) /\ ExpiryOf(db, u) >= t}

\* C12: list-all returns exactly one entry for each stored record whose expiry
\* is not earlier than now and none for the others; when it returns, no stored
\* record has an expiry earlier than now and every unexpired record is stored
\* as it was (no storage fault).
C12_ListSweepsExpired ==
    [][(Runs("list_premium_command") /\ out'.reply = "list" /\ out'.fault = "none") =>
          /\ Len(out'.listed) = Cardinality(LiveUsers(variables_data, now))
          /\ \A u \in LiveUsers(variables_data, now) :
                \E i \in 1..Len(out'.listed) :
                    /\ out'.listed[i].user_id = u
                    /\ out'.listed[i].expiry_date = ExpiryOf(variables_data, u)
          /\ \A u \in Users :
                /\ HasRecord(variables_data', u) => ExpiryOf(variables_data', u) >= now
                /\ u \in LiveUsers(variables_data, now) =>
                       RecordOrNone(variables_data', u) = RecordOf(variables_data, u)
      ]_vars

\* At time 2 a listing showed one user, whose record expires at this very
\* instant, and no other record is stored.
C12_Witness ==
    /\ out.handler = "list_premium_command"
    /\ out.reply = "list"
    /\ now = 2
    /\ Len(out.listed) = 1
    /\ out.listed[1].expiry_date = now
    /\ Cardinality({u \in Users : HasRecord(variables_data, u)}) = 1

\* ------------------------------------------------- the shortener settings
CancelText == Text("Cancel")
WebReplies ==
    {<<>>, <<Web("https", "example.com", "")>>, <<CancelText>>, <<None>>,
     <<Web("http", "example.com", ""), Web("https", "example.org", "/")>>,
     <<Web("https", "example.com", "/a")>>, <<Text("abc"), CancelText>>}
ApiReplies == {<<>>, <<Text("key1")>>, <<Text("key2")>>, <<CancelText>>, <<None>>}
TimeReplies ==
    {<<>>, <<Dur(1, "s")>>, <<Dur(1, "H")>>, <<Dur(0, "s")>>,
     <<Dur(2, "d"), Dur(2, "m")>>, <<Text("abc")>>, <<Text("abc"), CancelText>>,
     <<None>>}

\* A press of CHANGE WEBSITE or CHANGE API and the replies that follow it
Short2 ==
    \E u \in Users, action \in {"web", "api"}, prompt_ok \in BOOLEAN :
        \E replies \in (IF action = "web" THEN WebReplies ELSE ApiReplies) :
            /\ Handled(short2(variables_data, u, action, replies, prompt_ok), "none")
            /\ UNCHANGED <<monitor, call, auto_delete_data, channel_button_link_data, now, user_data, channel_data, joined, tasks, history>>

\* A press of REMOVE SHORTENER
Short3 ==
    \E u \in Users :
        /\ Handled(short3(variables_data, u), "none")
        /\ UNCHANGED <<monitor, call, auto_delete_data, channel_button_link_data, now, user_data, channel_data, joined, tasks, history>>

\* A press of 24H MODE or PER LINK MODE and the replies that follow it
Short4 ==
    \E u \in Users, action \in {"24", "link"}, prompt_ok \in BOOLEAN :
        \E replies \in (IF action = "24" THEN TimeReplies ELSE {<<>>}) :
            /\ Handled(short4(variables_data, u, action, replies, prompt_ok), "none")
            /\ UNCHANGED <<monitor, call, auto_delete_data, channel_button_link_data, now, user_data, channel_data, joined, tasks, history>>

NextShortener == Short2 \/ Short3 \/ Short4

SpecShortener == Init /\ [][NextShortener]_vars

\* The settings actions one await at a time: short3 and short4 load the
\* configuration, short4 on mode_24 then waits for the reply, and every
\* set_variable is a call of its own, so the runs of two admins' presses
\* can interleave. A run keeps the snapshot it loaded (read) and the
\* set_variable calls it has still to make (writes).
SettingOps == {"rem", "link", "24"}
Write(name, value) == [key |-> Key(name, 0), value |-> value]

\* `if not config.short_enabled: await set_variable("short", True)` and
\* `await set_variable("mode", mode)` as the calls they come to
enable_writes(short_enabled, mode) ==
    (IF ~Truthy(short_enabled) THEN <<Write("short", Bool(TRUE))>> ELSE <<>>)
    \o <<Write("mode", Text(mode))>>

\* An admin presses REMOVE SHORTENER, PER LINK MODE or 24H MODE
BeginSetting ==
    \E k \in Tasks, op \in SettingOps, u \in OWNER_ID :
        /\ tasks[k].pc = "idle"
        /\ check_admin(u)
        /\ tasks' = [tasks EXCEPT ![k] = [NoTask EXCEPT !.pc = "load_config",
                                                        !.op = op, !.user = u]]
        /\ UNCHANGED <<monitor, call, auto_delete_data, channel_button_link_data, now, variables_data, user_data, channel_data, joined, out, history>>

\* `config = await ShortenerManager.load_config()` and what follows up to the
\* next await: short3 answers "already disabled" or goes on to its two
\* writes, short4 goes on to its writes (link) or to the prompt (24)
LoadConfig ==
    \E k \in Tasks :
        LET task == tasks[k]
            config == load_config(variables_data)
            o == [Ran(IF task.op = "rem" THEN "short3" ELSE "short4", task.user)
                    EXCEPT !.action = task.op]
        IN /\ task.pc = "load_config"
           /\ ~config.raised
           /\ IF task.op = "rem" /\ ~Truthy(config.short_enabled)
              THEN /\ tasks' = [tasks EXCEPT ![k] = NoTask]
                   /\ out' = [o EXCEPT !.reply = "already_disabled"]
              ELSE /\ out' = out
                   /\ tasks' = [tasks EXCEPT
                        ![k].read = config.short_enabled,
                        ![k].pc = IF task.op = "24" THEN "listen" ELSE "set_variable",
                        ![k].writes =
                            CASE task.op = "rem" ->
                                   <<Write("short", Bool(FALSE)), Write("mode", None)>>
                              [] task.op = "link" ->
                                   enable_writes(config.short_enabled, "link")
                              [] OTHER -> <<>>]
           /\ UNCHANGED <<monitor, call, auto_delete_data, channel_button_link_data, now, variables_data, user_data, channel_data, joined, history>>

\* request_user_input returns to short4: with the accepted reply, or with
\* None after a cancel or the timeout
HearReply ==
    \E k \in Tasks, replies \in TimeReplies :
        LET task == tasks[k]
            r == request_user_input(replies, "validate_time", TRUE)
            o == [Ran("short4", task.user) EXCEPT !.action = "24", !.prompted = TRUE,
                                                   !.prompt_msg = r.prompt_msg]
        IN /\ task.pc = "listen"
           /\ IF r.status = "input" /\ Truthy(r.value)
              THEN /\ out' = out
                   /\ tasks' = [tasks EXCEPT
                        ![k].pc = "set_variable",
                        ![k].writes =
                            <<Write("token_time", str(parse_time_string(r.value)))>>
                            \o enable_writes(task.read, "24")]
              ELSE /\ tasks' = [tasks EXCEPT ![k] = NoTask]
                   /\ out' = [o EXCEPT !.reply = r.status]
           /\ UNCHANGED <<monitor, call, auto_delete_data, channel_button_link_data, now, variables_data, user_data, channel_data, joined, history>>

\* The next `await set_variable(...)` of a run, and its answer after the last
WriteSetting ==
    \E k \in Tasks :
        LET task == tasks[k]
            write == Head(task.writes)
            o == [Ran(IF task.op = "rem" THEN "short3" ELSE "short4", task.user)
                    EXCEPT !.action = task.op]
        IN /\ task.pc = "set_variable"
           /\ variables_data' = set_variable(variables_data, write.key, write.value)
           /\ IF Len(task.writes) = 1
              THEN /\ tasks' = [tasks EXCEPT ![k] = NoTask]
                   /\ out' = [o EXCEPT !.reply = IF task.op = "rem" THEN "removed"
                                                 ELSE "enabled"]
              ELSE /\ tasks' = [tasks EXCEPT ![k].writes = Tail(task.writes)]
                   /\ out' = out
           /\ UNCHANGED <<monitor, call, auto_delete_data, channel_button_link_data, now, user_data, channel_data, joined, history>>

NextSettingsRace ==
    \/ BeginSetting
    \/ LoadConfig
    \/ HearReply
    \/ WriteSetting

SpecSettingsRace == Init /\ [][NextSettingsRace]_vars

\* The 24h mode from its setting to the first request after a verification:
\* a fresh store without force-subscribe channels, the settings prompt of
\* short4 with every reply of TimeReplies, and one user who is no admin and
\* not premium asking for an item and presenting tokens.
ModeSessionPayloads == Tokens \cup {encode(<<Text("get"), NumStr(1)>>)}

InitModeSession == InitWith(StoreWith(Absent, Absent, Absent), {})

StartModeSession == StartBy({2}, ModeSessionPayloads, PendingEnvs)

NextModeSession ==
    \/ Tick
    \/ Short4
    \/ StartModeSession

SpecModeSession == InitModeSession /\ [][NextModeSession]_vars

\* Premium checks that cannot tell: the map of a database that was written
\* from outside the bot holds for user 2 a record without "expiry" (Absent)
\* or with an expiry that is no ISO date, or a record that is in order, or
\* none; any stored mode; the read of the map may raise.
MalformedExpiries == {Absent, Text("abc")}
PremiumWith(user_id, expiry) ==
    Dict(<<[k |-> str(user_id),
            v |-> [expiry |-> expiry, added_by |-> 1,
                   added_at |-> isoformat(0), duration_seconds |-> 1]]>>)
FailClosedPayloads == Tokens \cup {None} \cup {encode(r) : r \in PendingRequests}

InitFailClosed ==
    \E mode \in ModeValues, token_time \in TokenTimeValues,
       premium_set \in {Absent, PremiumUntil(2, 1)}
                         \cup {PremiumWith(2, e) : e \in MalformedExpiries} :
        InitWith(StoreWith(mode, token_time, premium_set), {})

StartFailClosed == StartBy({2}, FailClosedPayloads, Envs)

NextFailClosed ==
    \/ Tick
    \/ StartFailClosed

SpecFailClosed == InitFailClosed /\ [][NextFailClosed]_vars

\* ------------------------------------------------- the parsing of payloads
\* Every list of at most four tokens, each a word or the decimal string of a
\* small number, parsed in and out of link mode; and the legacy unwrap on
\* small values with a few storage-channel ids
ParseTokens ==
    {Text("get"), Text("set"), Text("abc")} \cup {NumStr(n) : n \in 0..MaxParsedId}
ParseArguments ==
    {<<>>} \cup {<<a>> : a \in ParseTokens}
    \cup (ParseTokens \X ParseTokens)
    \cup (ParseTokens \X ParseTokens \X ParseTokens)
    \cup (ParseTokens \X ParseTokens \X ParseTokens \X ParseTokens)
UnwrapValues == (0 - 1)..(2 * MaxParsedId)
ChannelIds == {0 - 3, 0 - 2, 0 - 1, 0, 2}

ParseCalls ==
    {Call("parse_message_ids", <<argument, DB_CHANNEL_ID, link_mode>>) :
        argument \in ParseArguments, link_mode \in BOOLEAN}
    \cup {Call("_maybe_unwrap_token", <<value, db_channel_id>>) :
            value \in UnwrapValues, db_channel_id \in ChannelIds}

\* The variables other than the call and its outcome
Rest ==
    <<now, variables_data, user_data, channel_data, joined, tasks, history,
      channel_button_link_data, auto_delete_data, monitor>>

\* The state a call leaves: the outcome recorded, nothing else touched
Returns(returned) ==
    /\ out' = [Ran(call.fn, 0) EXCEPT !.args = call.args, !.returned = returned]
    /\ call' = NoCall
    /\ UNCHANGED Rest

\* The fresh state with one of the calls given about to be made
InitCalling(calls) ==
    /\ \E c \in calls : call = c
    /\ now = 0
    /\ variables_data = StoreWith(Absent, Absent, Absent)
    /\ user_data = {}
    /\ channel_data = {}
    /\ joined = [u \in Users |-> {}]
    /\ out = NoOut
    /\ monitor = NoMonitors
    /\ tasks = [k \in Tasks |-> NoTask]
    /\ history = [issued |-> 0, granted |-> 0, begun |-> 0, done |-> {}]
    /\ channel_button_link_data = <<>>
    /\ auto_delete_data = Absent

InitParse == InitCalling(ParseCalls)

ParseMessageIds ==
    /\ call.fn = "parse_message_ids"
    /\ Returns(List(parse_message_ids(call.args[1], call.args[2], call.args[3])))

MaybeUnwrapToken ==
    /\ call.fn = "_maybe_unwrap_token"
    /\ Returns(Number(_maybe_unwrap_token(call.args[1], call.args[2])))

NextParse == ParseMessageIds \/ MaybeUnwrapToken

SpecParse == InitParse /\ [][NextParse]_vars

\* ------------------------------------------------ the force-subscribe prompt
\* User 2 starts the bot with up to three channels configured, in any order,
\* having joined any of them but not all, each chat resolving or not
ForceSubChannels == {10, 20, 30}
Orderings(S) ==
    {s \in [1..Cardinality(S) -> S] : \A i, j \in DOMAIN s : s[i] = s[j] => i = j}

InitForceSub ==
    /\ call = NoCall
    /\ now = 0
    /\ variables_data = StoreWith(Absent, Absent, Absent)
    /\ user_data = {}
    /\ channel_data \in SUBSET ForceSubChannels
    /\ joined \in [Users -> SUBSET ForceSubChannels]
    /\ joined[1] = {}
    /\ out = NoOut
    /\ monitor = NoMonitors
    /\ tasks = [k \in Tasks |-> NoTask]
    /\ history = [issued |-> 0, granted |-> 0, begun |-> 0, done |-> {}]
    /\ channel_button_link_data = <<>>
    /\ auto_delete_data = Absent

NotJoined ==
    \E all_channels \in Orderings(channel_data),
       chats \in [channel_data -> ChatKinds], REQFSUB \in BOOLEAN :
        /\ ~subscribed(channel_data, joined, 2)
        /\ Handled(not_joined(variables_data, now, 2, all_channels, joined[2], chats,
                              REQFSUB), "none")
        /\ UNCHANGED <<monitor, call, auto_delete_data, channel_button_link_data, now, user_data,
                       channel_data, joined, tasks, history>>

NextForceSub == NotJoined

SpecForceSub == InitForceSub /\ [][NextForceSub]_vars

\* --------------------------------------------------- the premium list pages
\* Lists of up to MaxListed users, user i of the list having the id 100 + i,
\* on the pages 0 to MaxPage that a prem_list_<page> callback can name
ListCalls ==
    {Call("build_list_message", <<[i \in 1..n |-> 100 + i], page, per_page_default>>) :
        n \in 0..MaxListed, page \in 0..MaxPage}

InitList == InitCalling(ListCalls)

BuildListMessage ==
    /\ call.fn = "build_list_message"
    /\ Returns(Dict(build_list_message(call.args[1], call.args[2], call.args[3])))

NextList == BuildListMessage

SpecList == InitList /\ [][NextList]_vars

\* --------------------------------------------------- the duration strings
\* Every string of at most MaxChars characters, at most MaxDigits of them
\* digits, over a few digits, the letters of the units in both cases, an
\* unknown letter, the signs and a newline
DurationAlphabet ==
    {"0", "1", "2", "s", "m", "o", "h", "d", "w", "y", "M", "O", "D", "x", "-", "+",
     "\n"}
DurationCalls ==
    {Call("parse_duration", <<Chars(chars)>>) :
        chars \in {c \in UNION {[1..n -> DurationAlphabet] : n \in 0..MaxChars} :
                     Cardinality({i \in DOMAIN c : isdigit(c[i])}) <= MaxDigits}}

InitDuration == InitCalling(DurationCalls)

ParseDuration ==
    /\ call.fn = "parse_duration"
    /\ LET duration_seconds == parse_duration(call.args[1])
       IN Returns(IF duration_seconds = NoParse THEN None
                  ELSE Number(duration_seconds))

NextDuration == ParseDuration

SpecDuration == InitDuration /\ [][NextDuration]_vars

\* ------------------------------------------------------ the time formatters
\* Each formatter on every total from 0 to MaxTotal seconds
FormatCalls ==
    {Call(fn, <<total>>) :
        fn \in {"format_seconds", "format_time_duration"}, total \in 0..MaxTotal}

InitFormat == InitCalling(FormatCalls)

FormatSeconds ==
    /\ call.fn = "format_seconds"
    /\ Returns(List(format_seconds(call.args[1])))

FormatTimeDuration ==
    /\ call.fn = "format_time_duration"
    /\ Returns(List(format_time_duration(call.args[1])))

NextFormat == FormatSeconds \/ FormatTimeDuration

SpecFormat == InitFormat /\ [][NextFormat]_vars

\* ------------------------------------------------------ the callback router
\* The buttons of the shortener panel and of the premium manager, and a few
\* strings next to the prefixes, pressed by the owner or by user 2
CallbackData ==
    {<<"s", "h", "o", "r", "t", "_", "w", "e", "b">>,
     <<"s", "h", "o", "r", "t", "_", "a", "p", "i">>,
     <<"s", "h", "o", "r", "t", "_", "r", "e", "m">>,
     <<"s", "h", "o", "r", "t", "_", "x">>,
     <<"s", "h", "o", "r", "t">>,
     <<"m", "o", "d", "e", "_", "2", "4">>,
     <<"m", "o", "d", "e", "_", "l", "i", "n", "k">>,
     <<"m", "o", "d", "e">>,
     <<"p", "r", "e", "m">>,
     <<"p", "r", "e", "m", "_", "l", "i", "s", "t", "_", "1">>,
     <<"p", "r", "e", "m", "_", "s", "t", "a", "t", "s">>,
     <<"c", "l", "o", "s", "e">>,
     <<"r", "e", "f", "r", "e", "s", "h", "_", "l", "i", "s", "t", "_", "1">>,
     <<"e", "x", "p", "o", "r", "t", "_", "p", "r", "e", "m", "i", "u", "m">>,
     <<"r", "e", "m", "o", "v", "e", "_", "2">>}

GlobalCallbackHandler ==
    \E u \in Users, data \in CallbackData, prompt_ok \in BOOLEAN :
        \E replies \in {<<>>, <<Dur(2, "m")>>,
                        <<Web("https", "example.com", "")>>, <<Text("abc")>>} :
            /\ Handled(global_callback_handler(variables_data, u, data, replies,
                                               prompt_ok), "none")
            /\ UNCHANGED <<monitor, call, auto_delete_data, channel_button_link_data, now,
                           user_data, channel_data, joined, tasks, history>>

NextRouter == GlobalCallbackHandler

SpecRouter == Init /\ [][NextRouter]_vars

\* ------------------------------------------------- the background monitors
\* Both loops from their start at clock 0 to MaxMonitorTime, with one user
\* whose premium runs out an hour after the first daily notification and one
\* whose premium runs out then or within the first minutes. The clock moves
\* from wake-up to wake-up; the body of an iteration takes no time.
expiry_sleep == 300
notify_sleep == 86400
interval(m) == IF m = "premium_expiry_monitor" THEN expiry_sleep ELSE notify_sleep

\* What an iteration's body meets: no exception, one before it has called
\* get_all_premium_users, or one after
Raises == {"none", "before", "after"}

InitMonitor ==
    /\ call = NoCall
    /\ now = 0
    /\ \E expiry \in {400, notify_sleep + 3600} :
          variables_data =
             StoreWith(Absent, Absent,
                       Dict(PremiumUntil(1, notify_sleep + 3600).m
                              \o PremiumUntil(2, expiry).m))
    /\ user_data = {}
    /\ channel_data = {}
    /\ joined = [u \in Users |-> {}]
    /\ out = NoOut
    /\ monitor = [m \in Monitors |->
                    [pc |-> "sleep", wake |-> interval(m), started |-> 0, gap |-> 0,
                     raised |-> FALSE]]
    /\ tasks = [k \in Tasks |-> NoTask]
    /\ history = [issued |-> 0, granted |-> 0, begun |-> 0, done |-> {}]
    /\ channel_button_link_data = <<>>
    /\ auto_delete_data = Absent

\* The loop whose sleep ends next may wake
Due(m) ==
    /\ monitor[m].pc \in {"sleep", "retry_sleep"}
    /\ monitor[m].wake <= MaxMonitorTime
    /\ \A other \in Monitors : monitor[m].wake <= monitor[other].wake

\* The loop begins an iteration at clock t: while True: try: sleep(interval)
BeginIteration(m, t, raised) ==
    [pc |-> "sleep", wake |-> t + interval(m), started |-> t,
     gap |-> t - monitor[m].started, raised |-> raised]

\* The users of premium_users to notify: days_left == 0 and hours_left <= 24
expiring_soon(premium_users) ==
    LET soon(user) == user.days_left = 0 /\ user.hours_left <= 24
    IN SelectSeq(premium_users, soon)

\* The body of an iteration after its sleep: get_all_premium_users, and in the
\* notifier a message to each user expiring soon, failing for the users of
\* failing; an exception in the body sends the loop to the sleep of its
\* except block, no exception to its next iteration
Iterate(m) ==
    \E fault \in {"none", "read"}, raise \in Raises, failing \in SUBSET Users :
        LET t == monitor[m].wake
            r == IF raise = "before" THEN [db |-> variables_data, result |-> <<>>]
                 ELSE get_all_premium_users(variables_data, t, fault)
            soon == IF m = "notify_expiring_soon" /\ raise = "none"
                    THEN expiring_soon(r.result) ELSE <<>>
            sent(user) == user.user_id \notin failing
            unsent(user) == user.user_id \in failing
        IN /\ Due(m)
           /\ monitor[m].pc = "sleep"
           /\ m = "premium_expiry_monitor" => failing = {}
           /\ now' = t
           /\ variables_data' = r.db
           /\ out' = [Ran(m, 0) EXCEPT
                        !.fault = raise,
                        !.listed = r.result,
                        !.notified = [i \in 1..Len(SelectSeq(soon, sent)) |->
                                        SelectSeq(soon, sent)[i].user_id],
                        !.failed_users = [i \in 1..Len(SelectSeq(soon, unsent)) |->
                                            SelectSeq(soon, unsent)[i].user_id]]
           /\ monitor' = [monitor EXCEPT ![m] =
                            IF raise = "none" THEN BeginIteration(m, t, FALSE)
                            ELSE [@ EXCEPT !.pc = "retry_sleep",
                                           !.wake = t + interval(m)]]
           /\ UNCHANGED <<call, auto_delete_data, channel_button_link_data, user_data,
                          channel_data, joined, tasks, history>>

PremiumExpiryMonitor == Iterate("premium_expiry_monitor")
NotifyExpiringSoon == Iterate("notify_expiring_soon")

\* The sleep of the except block ends and the loop goes round
Retry(m) ==
    /\ Due(m)
    /\ monitor[m].pc = "retry_sleep"
    /\ now' = monitor[m].wake
    /\ out' = [Ran("retry", 0) EXCEPT !.action = m]
    /\ monitor' = [monitor EXCEPT ![m] = BeginIteration(m, monitor[m].wake, TRUE)]
    /\ UNCHANGED <<call, auto_delete_data, channel_button_link_data, variables_data,
                   user_data, channel_data, joined, tasks, history>>

RetryExpiryMonitor == Retry("premium_expiry_monitor")
RetryNotifier == Retry("notify_expiring_soon")

NextMonitor ==
    PremiumExpiryMonitor \/ NotifyExpiringSoon \/ RetryExpiryMonitor \/ RetryNotifier

SpecMonitor == InitMonitor /\ [][NextMonitor]_vars

\* ------------------------------------------------------- the bulk grant
\* The owner grants one second of premium to lists of up to MaxBulk ids, a
\* user possibly listed twice, the storage failing at any of the grants
BulkLists ==
    UNION {[1..n -> {str(1), str(2)}] : n \in 1..MaxBulk}
BulkFaults == [1..MaxBulk -> {"none", "write"}]

AddPremiumBulk ==
    \E pieces \in BulkLists, faults \in BulkFaults :
        /\ Handled(add_premium_bulk_command(variables_data, now, 1,
                                            <<Ids(pieces), Dur(1, "s")>>, faults),
                   "none")
        /\ UNCHANGED <<monitor, call, auto_delete_data, channel_button_link_data, now, user_data,
                       channel_data, joined, tasks, history>>

NextBulk == Tick \/ AddPremiumBulk

SpecBulk == Init /\ [][NextBulk]_vars

\* ---------------------------------------------------------- the delivery
\* Item requests of one user whose premium record runs out at 1, delivered
\* with the auto-delete flag unset, on or off
DeliveryPayloads == {encode(r) : r \in Requests}
FloodDeliveries ==
    {Delivery("ok", 0, {1}, 1, "error"),
     Delivery("ok", 0, {1, 3}, 2, "error"),
     Delivery("ok", 2, {2}, 2, "error"),
     Delivery("ok", 2, {2}, 1, "flood"),
     Delivery("ok", 3, {1, 2}, 1, "error")}
DeliveryEnvs ==
    {[fault |-> "none", h |-> "h1", short_ok |-> TRUE, delivery |-> d] :
        d \in Deliveries \cup FloodDeliveries}

InitDelivery ==
    \E mode \in {Absent, Text("link")}, premium_set \in {Absent, PremiumUntil(2, 1)} :
        InitWith(StoreWith(mode, Absent, premium_set), {})

SetAutoDelete ==
    \E value \in BOOLEAN :
        /\ auto_delete_data' = set_auto_delete(auto_delete_data, value)
        /\ out' = [NoOut EXCEPT !.handler = "set_auto_delete"]
        /\ UNCHANGED <<monitor, call, now, variables_data, user_data, channel_data, joined, tasks,
                       history, channel_button_link_data>>

StartDelivery == StartBy({2}, DeliveryPayloads, DeliveryEnvs)

NextDelivery ==
    \/ Tick
    \/ SetAutoDelete
    \/ StartDelivery

SpecDelivery == InitDelivery /\ [][NextDelivery]_vars

\* ------------------------------------------------------ the variable store
\* The four operations of the store on two of its keys, with a value or
\* Python's None written and two defaults asked for
StoreKeys == {"api", "website"}
StoreValues == {None, Text("a"), Bool(FALSE), NumStr(0)}
Defaults == {None, Text("d")}

SetVariable ==
    \E name \in StoreKeys, value \in StoreValues :
        /\ variables_data' = set_variable(variables_data, Key(name, 0), value)
        /\ out' = [Ran("set_variable", 0) EXCEPT !.action = name, !.input = value]
        /\ UNCHANGED <<monitor, call, auto_delete_data, channel_button_link_data, now, user_data, channel_data, joined, tasks, history>>

GetVariable ==
    \E name \in StoreKeys, default \in Defaults :
        /\ out' = [Ran("get_variable", 0) EXCEPT !.action = name, !.input = default,
                     !.returned = get_variable(variables_data, Key(name, 0), default)]
        /\ UNCHANGED <<monitor, call, auto_delete_data, channel_button_link_data, now, variables_data, user_data, channel_data, joined, tasks, history>>

DeleteVariable ==
    \E name \in StoreKeys :
        LET r == delete_variable(variables_data, Key(name, 0))
        IN /\ variables_data' = r.db
           /\ out' = [Ran("delete_variable", 0) EXCEPT !.action = name,
                        !.returned = Bool(r.deleted)]
           /\ UNCHANGED <<monitor, call, auto_delete_data, channel_button_link_data, now, user_data, channel_data, joined, tasks, history>>

VariableExists ==
    \E name \in StoreKeys :
        /\ out' = [Ran("variable_exists", 0) EXCEPT !.action = name,
                     !.returned = Bool(variable_exists(variables_data, Key(name, 0)))]
        /\ UNCHANGED <<monitor, call, auto_delete_data, channel_button_link_data, now, variables_data, user_data, channel_data, joined, tasks, history>>

NextVariables == SetVariable \/ GetVariable \/ DeleteVariable \/ VariableExists

SpecVariables == Init /\ [][NextVariables]_vars

\* ------------------------------------------------ the channel button link
\* A document {'button_name': ..., 'button_link': ...}, also the pair that
\* get_channel_button_link returns
Button(button_name, button_link) ==
    [tag |-> "button", button_name |-> button_name, button_link |-> button_link]
Buttons == {Button("a", "https://t.me/a"), Button("b", "https://t.me/b")}
DefaultButton == Button("Join Channel", "https://t.me/btth480p")

\* A call of set_channel_button_link begins
BeginSetChannelButtonLink ==
    \E k \in Tasks, button \in Buttons :
        /\ tasks[k].pc = "idle"
        /\ tasks' = [tasks EXCEPT ![k] = [NoTask EXCEPT !.pc = "delete_many",
                                                        !.button = button]]
        /\ out' = [NoOut EXCEPT !.handler = "begin"]
        /\ UNCHANGED <<monitor, call, auto_delete_data, now, variables_data, user_data, channel_data, joined, history,
                       channel_button_link_data>>

\* set_channel_button_link: await delete_many({})
DeleteMany ==
    \E k \in Tasks :
        /\ tasks[k].pc = "delete_many"
        /\ channel_button_link_data' = <<>>
        /\ tasks' = [tasks EXCEPT ![k].pc = "insert_one"]
        /\ out' = [NoOut EXCEPT !.handler = "delete_many"]
        /\ UNCHANGED <<monitor, call, auto_delete_data, now, variables_data, user_data, channel_data, joined, history>>

\* set_channel_button_link: await insert_one({...}), which ends the call
InsertOne ==
    \E k \in Tasks :
        /\ tasks[k].pc = "insert_one"
        /\ channel_button_link_data' = Append(channel_button_link_data, tasks[k].button)
        /\ tasks' = [tasks EXCEPT ![k] = NoTask]
        /\ out' = [Ran("set_channel_button_link", 0) EXCEPT !.input = tasks[k].button]
        /\ UNCHANGED <<monitor, call, auto_delete_data, now, variables_data, user_data, channel_data, joined, history>>

\* get_channel_button_link: find_one({}) gives the first document
get_channel_button_link(collection) ==
    IF collection # <<>> THEN collection[1] ELSE DefaultButton

GetChannelButtonLink ==
    /\ out' = [Ran("get_channel_button_link", 0) EXCEPT
                 !.returned = get_channel_button_link(channel_button_link_data)]
    /\ UNCHANGED <<monitor, call, auto_delete_data, now, variables_data, user_data, channel_data, joined, tasks, history,
                   channel_button_link_data>>

NextButtonLink ==
    \/ BeginSetChannelButtonLink
    \/ DeleteMany
    \/ InsertOne
    \/ GetChannelButtonLink

SpecButtonLink == Init /\ [][NextButtonLink]_vars

\* ------------------------------------------- the admin gate of the premium map
\* Every handler that writes the premium map, called by the owner and by a
\* user who is no admin, with a store that answers
GateGrantRuns == {<<str(u), Dur(1, "s")>> : u \in Users} \X {"none"}
GateRevokeRuns == {<<str(u)>> : u \in Users} \X {"none"}
GateCallbacks == (Users \X {Dur(1, "s"), Dur(0, "s")}) \X {"none"}
BulkArgs ==
    {<<Ids(<<str(1), str(2)>>), Dur(1, "s")>>,
     <<Ids(<<str(1), Text("abc")>>), Dur(1, "s")>>,
     <<Ids(<<str(1)>>), Dur(0, "s")>>,
     <<Ids(<<str(1)>>)>>}

GateAddPremiumCommand == AddPremiumCommandBy(Users, GateGrantRuns)
GateExtendPremiumCommand == ExtendPremiumCommandBy(Users, GateGrantRuns)
GateRemovePremiumCommand == RemovePremiumCommandBy(Users, GateRevokeRuns)
GateExtendPremiumCallback == ExtendPremiumCallbackBy(Users, GateCallbacks)
GateMyPremiumCommand == MyPremiumCommandBy(Users, {"none"})

AddPremiumBulkCommand ==
    \E u \in Users, args \in BulkArgs :
        /\ Handled(add_premium_bulk_command(variables_data, now, u, args,
                                            [i \in 1..MaxBulk |-> "none"]), "none")
        /\ UNCHANGED <<monitor, call, auto_delete_data, channel_button_link_data, now, user_data, channel_data, joined, tasks, history>>

\* A press of a button whose data is add_<user_id>_<duration>
AddPremiumCallback ==
    \E u \in Users, run \in GateCallbacks :
        /\ Handled(add_premium_callback(variables_data, now, u,
                                        run[1][1], run[1][2], run[2]),
                   run[2])
        /\ UNCHANGED <<monitor, call, auto_delete_data, channel_button_link_data, now, user_data, channel_data, joined, tasks, history>>

\* A press of a button whose data is remove_<user_id>
RemovePremiumCallback ==
    \E u \in Users, user_id \in Users :
        /\ Handled(remove_premium_callback(variables_data, now, u, user_id, "none"), "none")
        /\ UNCHANGED <<monitor, call, auto_delete_data, channel_button_link_data, now, user_data, channel_data, joined, tasks, history>>

NextAdminGate ==
    \/ Tick
    \/ GateAddPremiumCommand
    \/ AddPremiumBulkCommand
    \/ GateExtendPremiumCommand
    \/ GateRemovePremiumCommand
    \/ AddPremiumCallback
    \/ GateExtendPremiumCallback
    \/ RemovePremiumCallback
    \/ GateMyPremiumCommand

SpecAdminGate == Init /\ [][NextAdminGate]_vars

AdminGated ==
    {"add_premium_command", "add_premium_bulk_command", "extend_premium_command",
     "remove_premium_command", "add_premium_callback", "extend_premium_callback",
     "remove_premium_callback"}

\* C14: a caller who is no admin gets the denial from each of the seven
\* handlers that write the premium map and the map stays as it is; whatever a
\* non-admin runs, a record changes only by an expired one being removed.
C14_AdminGate ==
    [][(out'.handler # "none" /\ ~is_admin(out'.user)) =>
          /\ out'.handler \in AdminGated =>
                /\ out'.reply = "denied"
                /\ variables_data' = variables_data
          /\ \A u \in Users :
                RecordOrNone(variables_data', u) # RecordOrNone(variables_data, u) =>
                   /\ HasRecord(variables_data, u)
                   /\ ExpiryOf(variables_data, u) < now
                   /\ ~HasRecord(variables_data', u)
      ]_vars

\* A non-admin pressed remove_<id> for the owner's running record and was
\* denied; the record is still stored.
C14_Witness ==
    /\ out.handler = "remove_premium_callback"
    /\ out.user = 2
    /\ out.target = 1
    /\ out.reply = "denied"
    /\ HasRecord(variables_data, 1)
    /\ ExpiryOf(variables_data, 1) >= now

\* The store as the task read it: the stored one with the premium map the
\* task holds a copy of
BelievedBy(task) == [variables_data EXCEPT ![PREMIUM_SET_KEY] = task.read]

\* What a successful operation leaves for its target, given the store it read
EffectPresent(task, db) ==
    CASE task.op = "grant" ->
           /\ HasRecord(db, task.target)
           /\ ExpiryOf(db, task.target) = task.t + 1
      [] task.op \in {"revoke", "sweep"} -> ~HasRecord(db, task.target)
      [] task.op = "extend" ->
           /\ HasRecord(db, task.target)
           /\ ExpiryOf(db, task.target)
                = ExpiryOf(BelievedBy(task), task.target) + 1

\* C13: premium operations that interleave between reading and writing the
\* map are last-writer-wins: a successful write leaves the target's effect and,
\* for every other user, exactly what the writer had read, whatever was stored
\* since; a writer whose copy is still the stored map (no interleaving) leaves
\* every other user's stored record as it is.
C13_LastWriterWins ==
    [][\A k \in Tasks :
          (tasks[k].pc = "save" /\ tasks'[k].pc = "idle" /\ out'.reply = "done") =>
             /\ EffectPresent(tasks[k], variables_data')
             /\ \A u \in Users \ {tasks[k].target} :
                   RecordOrNone(variables_data', u)
                     = RecordOrNone(BelievedBy(tasks[k]), u)
             /\ tasks[k].read = variables_data[PREMIUM_SET_KEY] =>
                   \A u \in Users \ {tasks[k].target} :
                       RecordOrNone(variables_data', u) = RecordOrNone(variables_data, u)
      ]_vars

\* Two grants, one for each user, both reported success within the same
\* second and nothing was revoked or swept, yet one record only is stored.
C13_Witness ==
    /\ history.done = {<<"grant", 1>>, <<"grant", 2>>}
    /\ \A k \in Tasks : tasks[k].pc = "idle"
    /\ now = 0
    /\ Cardinality({u \in Users : HasRecord(variables_data, u)}) = 1

\* C37: the lazy expiry sweep of check_premium and get_all_premium_users
\* removes a record only when its stored expiry is in the past at the moment
\* of the removal: a user granted or extended to a later expiry between the
\* sweep's reading of the map and its revoke call keeps the new record.
C37_SweepRemovesOnlyExpired ==
    [][\A k \in Tasks :
          (tasks[k].op = "sweep" /\ tasks[k].pc = "save" /\ tasks'[k].pc = "idle"
             /\ HasRecord(variables_data, tasks[k].target)
             /\ ~HasRecord(variables_data', tasks[k].target)) =>
             ExpiryOf(variables_data, tasks[k].target) < now
      ]_vars

\* ======================================================= the variable store
\* C18: after set(key, None) the key is as after delete(key): get returns the
\* caller's default and exists is false; and get of a key never written
\* returns the default.
C18_SetNoneDeletes ==
    [][/\ (out'.handler = "set_variable" /\ out'.input = None) =>
             /\ \A default \in Defaults :
                   get_variable(variables_data', Key(out'.action, 0), default) = default
             /\ ~variable_exists(variables_data', Key(out'.action, 0))
             /\ variables_data' = delete_variable(variables_data, Key(out'.action, 0)).db
       /\ (out'.handler = "get_variable"
             /\ variables_data[Key(out'.action, 0)] = Absent) =>
             out'.returned = out'.input
      ]_vars

\* C19: the channel-button-link collection never holds more than one
\* document, also when two calls of set_channel_button_link interleave.
C19_AtMostOneButtonLink == Len(channel_button_link_data) <= 1

\* ====================================================== the time formatters
\* The numbers a formatted duration shows, by the kind of its part
Shown(parts, words) ==
    {parts[i].n : i \in {j \in 1..Len(parts) : parts[j].word \in words}}

\* The parts are hours, minutes and seconds in this order, each at most once
InOrder(parts) ==
    LET rank(word) == CASE word \in {"hour", "hours"} -> 1
                        [] word \in {"minute", "minutes"} -> 2
                        [] OTHER -> 3
    IN \A i, j \in 1..Len(parts) : i < j => rank(parts[i].word) < rank(parts[j].word)

\* C29: the two formatters give the same output for every total >= 0: the
\* non-zero ones of hours, minutes and seconds joined by spaces, the seconds
\* left out whenever hours is non-zero, and "0 seconds" for 0.
C29_FormattersAgree ==
    [][(Runs("format_seconds") \/ Runs("format_time_duration")) =>
          LET total == out'.args[1]
              parts == out'.returned.items
              h == total \div 3600
              m == (total - h * 3600) \div 60
              sec == total - h * 3600 - m * 60
          IN /\ parts = format_seconds(total)
             /\ parts = format_time_duration(total)
             /\ IF total = 0 THEN parts = <<Part(0, "seconds")>>
                ELSE /\ InOrder(parts)
                     /\ Shown(parts, {"hour", "hours"}) = {h} \ {0}
                     /\ Shown(parts, {"minute", "minutes"}) = {m} \ {0}
                     /\ Shown(parts, {"second", "seconds"})
                          = IF h # 0 THEN {} ELSE {sec} \ {0}
      ]_vars

\* 3725 seconds came out of format_time_duration as "1 hour 2 minutes", the
\* 5 seconds left out.
C29_Witness ==
    /\ out.handler = "format_time_duration"
    /\ out.args = <<3725>>
    /\ out.returned = List(<<Part(1, "hour"), Part(2, "minutes")>>)

\* ====================================================== the callback router
\* A step of the router
Routed == out'.route # "none"

\* The data begins with the characters given
Begins(data, prefix) ==
    /\ Len(data) >= Len(prefix)
    /\ \A i \in 1..Len(prefix) : data[i] = prefix[i]

\* C30: data with the prefix "short_" goes to short2 unless it is exactly
\* "short_rem", which goes to short3; data with the prefix "mode_" goes to
\* short4; data with the prefix "prem" goes to the purchase information; all
\* other data (close, refresh_list_<page>, export_premium, remove_<id>) is left
\* unconsumed and passed on.
C30_RouterDispatch ==
    [][Routed =>
          LET data == out'.args[1]
              short == Begins(data, <<"s", "h", "o", "r", "t", "_">>)
              mode == Begins(data, <<"m", "o", "d", "e", "_">>)
              premium == Begins(data, <<"p", "r", "e", "m">>)
          IN /\ out'.handler = out'.route
             /\ (short /\ data # <<"s", "h", "o", "r", "t", "_", "r", "e", "m">>) => out'.handler = "short2"
             /\ data = <<"s", "h", "o", "r", "t", "_", "r", "e", "m">> => out'.handler = "short3"
             /\ mode => out'.handler = "short4"
             /\ premium => out'.handler = "prem"
             /\ (~short /\ ~mode /\ ~premium) =>
                   /\ out'.handler = "continue_propagation"
                   /\ variables_data' = variables_data
             /\ data \in {<<"c", "l", "o", "s", "e">>,
                          <<"r", "e", "f", "r", "e", "s", "h", "_", "l", "i", "s", "t", "_", "1">>,
                          <<"e", "x", "p", "o", "r", "t", "_", "p", "r", "e", "m", "i", "u", "m">>,
                          <<"r", "e", "m", "o", "v", "e", "_", "2">>} =>
                   out'.handler = "continue_propagation"
      ]_vars

\* The owner pressed REMOVE SHORTENER and short3 ran.
C30_Witness ==
    /\ out.route = "short3"
    /\ out.handler = "short3"
    /\ out.user = 1
    /\ out.args = <<<<"s", "h", "o", "r", "t", "_", "r", "e", "m">>>>

\* ==================================================== the duration strings
\* The string is digits up to position k and then the unit, in either case
DurationForm(chars, k, unit) ==
    /\ k \in 1..(Len(chars) - 1)
    /\ \A i \in 1..k : isdigit(chars[i])
    /\ [i \in 1..(Len(chars) - k) |-> lower_char(chars[k + i])] = spell(unit)

\* C28: parse_duration of "<n><unit>" is n times the unit's seconds for every
\* n >= 0 and every unit of s, m, h, d, w, mo, y in either case, and every
\* other string (no digits, an unknown unit, a sign, extra characters) has
\* no parse.
C28_ParseDurationExactForm ==
    [][Runs("parse_duration") =>
          LET chars == out'.args[1].chars
          IN IF \E k \in 1..Len(chars), unit \in DOMAIN conversions :
                   DurationForm(chars, k, unit)
             THEN \A k \in 1..Len(chars), unit \in DOMAIN conversions :
                     DurationForm(chars, k, unit) =>
                        out'.returned
                          = Number(int_of(SubSeq(chars, 1, k)) * conversions[unit])
             ELSE out'.returned = None
      ]_vars

\* ==================================================== the premium list pages
\* C27: for n >= 1 users and 10 per page total_pages is n / 10 rounded up,
\* page p lists exactly users (p - 1) * 10 + 1 to min(p * 10, n), and there
\* is a "previous" button iff p > 1 and a "next" button iff p < total_pages.
C27_PagesOfTen ==
    [][Runs("build_list_message") =>
          LET premium_users == out'.args[1]
              p == out'.args[2]
              n == Len(premium_users)
              shown == out'.returned.m
              last == IF p * 10 < n THEN p * 10 ELSE n
              Listed == {k \in 1..n : (p - 1) * 10 + 1 <= k /\ k <= last}
          IN n >= 1 =>
                /\ shown.total_pages * 10 >= n
                /\ (shown.total_pages - 1) * 10 < n
                /\ Len(shown.lines) = Cardinality(Listed)
                /\ \A i \in 1..Len(shown.lines) :
                      /\ shown.lines[i].idx = (p - 1) * 10 + i
                      /\ shown.lines[i].user_id = premium_users[(p - 1) * 10 + i]
                /\ (\E i \in 1..Len(shown.nav_buttons) :
                       shown.nav_buttons[i].kind = "previous") <=> p > 1
                /\ (\E i \in 1..Len(shown.nav_buttons) :
                       shown.nav_buttons[i].kind = "next") <=> p < shown.total_pages
      ]_vars

\* Page 3 of 25 users: users 21 to 25, a previous button and no next button.
C27_Witness ==
    /\ out.handler = "build_list_message"
    /\ Len(out.args[1]) = 25
    /\ out.args[2] = 3
    /\ out.returned.m.total_pages = 3
    /\ Len(out.returned.m.lines) = 5
    /\ out.returned.m.lines[5] = [idx |-> 25, user_id |-> 125]
    /\ out.returned.m.nav_buttons = <<Label("previous", 2)>>

RECURSIVE FailedFrom(_, _, _)
FailedFrom(user_ids, faults, i) ==
    IF i > Len(user_ids) THEN <<>>
    ELSE (IF faults[i] = "none" THEN <<>> ELSE <<user_ids[i]>>)
         \o FailedFrom(user_ids, faults, i + 1)

\* C26: in a bulk grant over n ids each id is granted on its own in list
\* order, a failed grant does not stop the later ones, success_count plus
\* the number of failed_users is n, and failed_users is exactly the ids whose
\* grant failed.
C26_BulkGrantsIndependently ==
    [][(Runs("add_premium_bulk_command") /\ out'.reply = "summary") =>
          LET user_ids == out'.ids
              faults == out'.args[1]
              n == Len(user_ids)
          IN /\ out'.success_count + Len(out'.failed_users) = n
             /\ out'.failed_users = FailedFrom(user_ids, faults, 1)
             /\ \A i \in 1..n :
                   faults[i] = "none" =>
                      /\ HasRecord(variables_data', user_ids[i])
                      /\ ExpiryOf(variables_data', user_ids[i]) = now + out'.duration
      ]_vars

\* The grant of the first of three ids failed and the two after it succeeded.
C26_Witness ==
    /\ out.handler = "add_premium_bulk_command"
    /\ out.ids = <<1, 2, 2>>
    /\ out.failed_users = <<1>>
    /\ out.success_count = 2
    /\ HasRecord(variables_data, 2)
    /\ ~HasRecord(variables_data, 1)

\* ================================================= the force-subscribe prompt
\* The channels of all_channels the user is not in, in the order given
Unjoined(all_channels, member) ==
    LET Missing(chat_id) == chat_id \notin member
    IN SelectSeq(all_channels, Missing)

\* C25: with N channels configured, k of them not joined and each of these
\* resolving, the prompt has exactly k channel buttons in the configured
\* order, then one "try again" button, and reports count k of total N; when
\* resolving one of them fails there is no prompt but an error message.
C25_PromptListsUnjoinedChannels ==
    [][Runs("not_joined") =>
          LET all_channels == out'.args[1]
              unjoined == Unjoined(all_channels, out'.args[2])
              chats == out'.args[3]
              k == Len(unjoined)
          IN IF \A i \in 1..k : chats[unjoined[i]] # "error"
             THEN /\ out'.reply = "force_subscribe"
                  /\ Len(out'.buttons) = k + 1
                  /\ \A i \in 1..k : out'.buttons[i].text = Label("title", unjoined[i])
                  /\ out'.buttons[k + 1].text = Label("try_again", 0)
                  /\ out'.count = k
                  /\ out'.total = Len(all_channels)
             ELSE /\ out'.reply = "error"
                  /\ out'.buttons = <<>>
      ]_vars

\* Channels 30, 10, 20 configured in that order, 10 joined: the buttons are
\* 30, 20, try again, and the prompt counts 2 of 3.
C25_Witness ==
    /\ out.handler = "not_joined"
    /\ out.args[1] = <<30, 10, 20>>
    /\ out.args[2] = {10}
    /\ out.reply = "force_subscribe"
    /\ Len(out.buttons) = 3
    /\ out.buttons[1].text = Label("title", 30)
    /\ out.buttons[2].text = Label("title", 20)
    /\ out.count = 2
    /\ out.total = 3

\* ==================================================== the parsing of payloads
\* The list runs from first to last in steps of one, up or down
RunsFromTo(items, first, last) ==
    /\ Len(items) = abs(last - first) + 1
    /\ items[1] = first
    /\ items[Len(items)] = last
    /\ \A i \in 1..(Len(items) - 1) :
          items[i + 1] = items[i] + (IF first <= last THEN 1 ELSE 0 - 1)

\* The unwrapped id at position i of the tokens parsed
Unwrapped(tokens, i) == _maybe_unwrap_token(int(tokens[i]), out'.args[2])

\* The tokens from position i on are n decimal strings, and nothing follows
IdsAt(tokens, i, n) ==
    /\ Len(tokens) = i + n - 1
    /\ \A j \in i..Len(tokens) : IsInt(tokens[j])

\* C22: ["get", a] and ["set", c, a] resolve to the one id a, ["get", a, b]
\* and ["set", c, a, b] to every integer from a to b, upwards when a <= b and
\* downwards when a > b, a and b being unwrapped first.
C22_IdsOfWellFormedPayloads ==
    [][Runs("parse_message_ids") =>
          LET tokens == out'.args[1]
              ids == out'.returned.items
              at == IF first_is(tokens, "get") THEN 2 ELSE 3
          IN ((first_is(tokens, "get") \/ (first_is(tokens, "set") /\ Len(tokens) >= 2))) =>
                /\ IdsAt(tokens, at, 1) => ids = <<Unwrapped(tokens, at)>>
                /\ IdsAt(tokens, at, 2) =>
                      RunsFromTo(ids, Unwrapped(tokens, at), Unwrapped(tokens, at + 1))
      ]_vars

\* ["set", "abc", "3", "1"] resolved to 3, 2, 1.
C22_Witness ==
    /\ out.handler = "parse_message_ids"
    /\ out.args[1] = <<Text("set"), Text("abc"), NumStr(3), NumStr(1)>>
    /\ out.returned = List(<<3, 2, 1>>)

\* C23: for a storage-channel id c other than 0, m * |c| unwraps to m for
\* every m >= 1, and a value below |c| or not divisible by |c| comes back
\* as it is.
C23_UnwrapRoundTrip ==
    [][Runs("_maybe_unwrap_token") =>
          LET v == out'.args[1]
              c == out'.args[2]
          IN c # 0 =>
                /\ \A m \in 1..v : v = m * abs(c) => out'.returned = Number(m)
                /\ (v < abs(c) \/ v % abs(c) # 0) => out'.returned = Number(v)
      ]_vars

\* The channel id's own magnitude, 1 * |c|, unwrapped to 1.
C23_Witness ==
    /\ out.handler = "_maybe_unwrap_token"
    /\ out.args = <<3, 0 - 3>>
    /\ out.returned = Number(1)

\* C24: a list that is none of the accepted shapes, or has a token that is
\* no integer where an id is expected, yields no ids; outside link mode a
\* list whose first token is neither "get" nor "set" yields no ids.
C24_NoIdsUnlessAcceptedShape ==
    [][Runs("parse_message_ids") =>
          LET tokens == out'.args[1]
              link_mode == out'.args[3]
              ids == out'.returned.items
              at == IF first_is(tokens, "get") THEN 2 ELSE 3
          IN /\ (~link_mode /\ ~first_is(tokens, "get") /\ ~first_is(tokens, "set")) =>
                   ids = <<>>
             /\ ((first_is(tokens, "get") \/ first_is(tokens, "set"))
                   /\ (Len(tokens) < at
                         \/ ~IsInt(tokens[at])
                         \/ (Len(tokens) > at /\ ~IsInt(tokens[at + 1])))) =>
                   ids = <<>>
      ]_vars

\* =================================================== the shortener settings
Setting(db, name) == db[Key(name, 0)]
Settings == {"api", "website", "short", "mode", "token_time"}
SettingsKept(names) ==
    \A name \in names : Setting(variables_data', name) = Setting(variables_data, name)

\* C15: a caller who is no admin gets the popup alert from each settings
\* action (website, API key, remove, per-link mode, 24h mode), no prompt is
\* opened and api, website, short, mode and token_time stay as stored.
C15_SettingsNeedAdmin ==
    [][(out'.handler \in {"short2", "short3", "short4"} /\ ~check_admin(out'.user)) =>
          /\ out'.reply = "not_authorized"
          /\ ~out'.prompted
          /\ SettingsKept(Settings)
      ]_vars

\* A non-admin pressed 24H MODE on a panel whose shortener the owner had
\* enabled in per-link mode.
C15_Witness ==
    /\ out.handler = "short4"
    /\ out.action = "24"
    /\ out.user = 2
    /\ out.reply = "not_authorized"
    /\ Setting(variables_data, "short") = Bool(TRUE)
    /\ Setting(variables_data, "mode") = Text("link")

\* C16: remove-shortener by an admin succeeds exactly when short is stored
\* true, and then short is false and mode is None with the other settings
\* kept; otherwise it answers "already disabled" and nothing is written.
C16_RemoveNeedsEnabled ==
    [][(out'.handler = "short3" /\ check_admin(out'.user)) =>
          IF Setting(variables_data, "short") = Bool(TRUE)
          THEN /\ out'.reply = "removed"
               /\ Setting(variables_data', "short") = Bool(FALSE)
               /\ Setting(variables_data', "mode") = None
               /\ SettingsKept({"api", "website", "token_time"})
          ELSE /\ out'.reply = "already_disabled"
               /\ variables_data' = variables_data
      ]_vars

\* The owner removed a shortener that was in 24h mode: disabled, mode cleared,
\* the verification time still stored.
C16_Witness ==
    /\ out.handler = "short3"
    /\ out.user = 1
    /\ out.reply = "removed"
    /\ Setting(variables_data, "short") = Bool(FALSE)
    /\ Setting(variables_data, "mode") = None
    /\ Setting(variables_data, "token_time") = NumStr(3600)

\* The seconds a reply <number><h|m|s> (in either case) stands for
SecondsOf(reply) ==
    CASE reply.unit \in {"h", "H"} -> reply.amount * 3600
      [] reply.unit \in {"m", "M"} -> reply.amount * 60
      [] reply.unit \in {"s", "S"} -> reply.amount

\* C17: when an admin's enable-mode action completes, short is stored true
\* and mode is the chosen one; for the 24h mode token_time holds the seconds
\* of the accepted reply.
C17_EnableSetsMode ==
    [][(out'.handler = "short4" /\ check_admin(out'.user) /\ out'.reply = "enabled") =>
          /\ Setting(variables_data', "short") = Bool(TRUE)
          /\ Setting(variables_data', "mode") = Text(out'.action)
          /\ out'.action \in {"link", "24"}
          /\ out'.action = "24" =>
                /\ out'.input.tag = "dur"
                /\ int(Setting(variables_data', "token_time")) = SecondsOf(out'.input)
      ]_vars

\* The owner enabled the 24h mode on a disabled shortener, replying 2m after
\* a reply that was refused.
C17_Witness ==
    /\ out.handler = "short4"
    /\ out.action = "24"
    /\ out.reply = "enabled"
    /\ out.input = Dur(2, "m")
    /\ Setting(variables_data, "token_time") = NumStr(120)
    /\ Setting(variables_data, "short") = Bool(TRUE)
    /\ Setting(variables_data, "mode") = Text("24")

\* The validator an action hands to the prompt, and the setting it stores
ValidatorOf(handler, action) ==
    CASE handler = "short2" /\ action = "web" -> "validate_website"
      [] handler = "short4" /\ action = "24" -> "validate_time"
      [] OTHER -> "none"

\* A reply that ends the wait: a message without text, the cancel text, or a
\* text the validator accepts
Decides(reply, validator) ==
    reply = None \/ is_cancel(reply) \/ validate(validator, reply)

\* The position of the first reply that ends the wait, 0 when there is none
FirstDeciding(replies, validator) ==
    IF \E i \in 1..Len(replies) : Decides(replies[i], validator)
    THEN CHOOSE i \in 1..Len(replies) :
            /\ Decides(replies[i], validator)
            /\ \A j \in 1..(i - 1) : ~Decides(replies[j], validator)
    ELSE 0

\* An admin's settings action has sent its prompt and waits for replies
Prompts ==
    /\ out'.handler \in {"short2", "short4"}
    /\ check_admin(out'.user)
    /\ out'.prompted

C35_ModeIsKnown ==
    load_config(variables_data).mode \in {Text("24"), Text("link"), Text("I")}

\* No settings action is between its press and its answer
SettingsIdle == \A k \in Tasks : tasks[k].pc = "idle"

\* C36: whenever no settings action is in progress, a stored mode of "24" or
\* "link" implies short_enabled = true, however the remove-shortener,
\* enable-link and enable-24h actions of the admins interleave, a remove that
\* completes while an enable-24h action waits for its reply included.
C36_ModeImpliesEnabled ==
    SettingsIdle =>
       (Setting(variables_data, "mode") \in {Text("24"), Text("link")} =>
           Setting(variables_data, "short") = Bool(TRUE))

\* ========================================================= the start flow
SessionOf(db, user_id) == db[Key("session_expiry", user_id)]
TokenOf(db, user_id) == db[Key("verify_token", user_id)]
PendingOf(db, user_id) == db[Key("pending_req", user_id)]
StoredMode(db) == db[Key("mode", 0)]
StoredTokenTime(db) == db[Key("token_time", 0)]

\* The step leaves the session expiry, the token and the pending request of
\* the user alone
GatingStateKept(user_id) ==
    /\ SessionOf(variables_data', user_id) = SessionOf(variables_data, user_id)
    /\ TokenOf(variables_data', user_id) = TokenOf(variables_data, user_id)
    /\ PendingOf(variables_data', user_id) = PendingOf(variables_data, user_id)

\* The payload of /start names an item: it is no token and it decodes
ItemPayload(payload) ==
    /\ payload # None
    /\ ~startswith(payload, "time_")
    /\ can_decode(removeprefix(payload, "verify_"))

\* The words of an item payload
WordsOf(payload) == decode(removeprefix(payload, "verify_"))

\* The user holds a premium record whose expiry is not in the past
PremiumNow(user_id) ==
    /\ HasRecord(variables_data, user_id)
    /\ ExpiryOf(variables_data, user_id) >= now

\* The stored session expiry of the user is strictly later than now
SessionLive(user_id) ==
    /\ SessionOf(variables_data, user_id).tag = "iso"
    /\ SessionOf(variables_data, user_id).t > now

\* start_command runs on an item payload
ItemRequest == Runs("start_command") /\ ItemPayload(out'.start)

\* C1: an item request of a user whose premium record has not expired goes
\* straight to delivery in every mode and whatever the session: no token, no
\* shortlink, no pending request, no session read or written (the premium
\* check meeting no read fault).
C1_PremiumBypass ==
    [][(ItemRequest /\ PremiumNow(out'.user) /\ out'.fault # "read") =>
          /\ out'.delivery
          /\ out'.as_premium
          /\ out'.reply \notin {"session_expired", "download_link",
                                "premium_direct_link"}
          /\ out'.shortlinks = 0
          /\ out'.link = None
          /\ ~out'.session_read
          /\ variables_data' = variables_data
      ]_vars

\* A premium user with no valid session got the files in mode "24".
C1_Witness ==
    /\ out.handler = "start_command"
    /\ out.as_premium
    /\ out.reply = "files_sent"
    /\ out.copied # <<>>
    /\ StoredMode(variables_data) = Text("24")
    /\ PremiumNow(out.user)
    /\ ~SessionLive(out.user)

\* C2: a /start of a user whose premium record has not expired is never
\* answered with the force-subscribe prompt, joined or not.
C2_PremiumSkipsForceSub ==
    [][Runs("not_joined") => ~PremiumNow(out'.user)]_vars

\* C3: in mode "24" an item request of a non-premium user is delivered exactly
\* when the stored session expiry is strictly later than now; otherwise a token
\* and the pending request are stored, the verification link is shown and
\* nothing is copied.
C3_SessionGate ==
    [][(/\ ItemRequest
        /\ StoredMode(variables_data) = Text("24")
        /\ ~PremiumNow(out'.user)) =>
          IF SessionLive(out'.user)
          THEN /\ out'.delivery
               /\ ~out'.as_premium
               /\ out'.shortlinks = 0
               /\ GatingStateKept(out'.user)
          ELSE /\ ~out'.delivery
               /\ out'.copied = <<>>
               /\ out'.reply = "session_expired"
               /\ startswith(TokenOf(variables_data', out'.user), "time_")
               /\ out'.link.start = TokenOf(variables_data', out'.user)
               /\ PendingOf(variables_data', out'.user)
                    = encode(<<Text("set")>> \o WordsOf(out'.start))
               /\ SessionOf(variables_data', out'.user)
                    = SessionOf(variables_data, out'.user)
      ]_vars

\* At the very instant a session expires a request met Session-Expired
\* handling.
C3_Witness ==
    /\ out.handler = "start_command"
    /\ out.reply = "session_expired"
    /\ SessionOf(variables_data, out.user) = isoformat(now)
    /\ Truthy(PendingOf(variables_data, out.user))

\* C7: in mode "link" an item request of a non-premium user whose words do not
\* include "set" copies nothing: it is answered with a download link to the
\* payload re-encoded behind the word "set", and session, token and pending
\* request stay as they were; what is delivered in this mode contains "set".
C7_LinkModeOnlyLinks ==
    [][(/\ ItemRequest
        /\ StoredMode(variables_data) = Text("link")
        /\ ~PremiumNow(out'.user)) =>
          IF \E i \in 1..Len(WordsOf(out'.start)) :
                 WordsOf(out'.start)[i] = Text("set")
          THEN out'.delivery
          ELSE /\ ~out'.delivery
               /\ out'.copied = <<>>
               /\ out'.reply = "download_link"
               /\ out'.link.start
                    = Prefixed("verify_",
                               encode(<<Text("set")>> \o WordsOf(out'.start)))
               /\ GatingStateKept(out'.user)
      ]_vars

\* A plain request for item 1 was answered with the link to set-get-1.
C7_Witness ==
    /\ out.handler = "start_command"
    /\ out.reply = "download_link"
    /\ out.start = encode(<<Text("get"), NumStr(1)>>)
    /\ out.link.start
         = Prefixed("verify_", encode(<<Text("set"), Text("get"), NumStr(1)>>))
    /\ out.copied = <<>>
    /\ StoredMode(variables_data) = Text("link")

\* The stored auto-delete flag is on
AutoDeleteOn == auto_delete_data = Bool(TRUE)

\* C20: a delivery to a requester whose premium record has not expired
\* schedules no deferred deletion and no deletion warning, whatever the
\* auto-delete flag; a delivery to any other requester schedules a deletion
\* for every copied item and, after the last copy, the warning exactly when
\* the flag is on.
C20_PremiumKeepsItems ==
    [][(ItemRequest /\ out'.delivery) =>
          IF PremiumNow(out'.user)
          THEN /\ out'.delete_tasks = <<>>
               /\ ~out'.notification
          ELSE /\ out'.delete_tasks = (IF AutoDeleteOn THEN out'.copied ELSE <<>>)
               /\ out'.notification = (AutoDeleteOn /\ out'.reply = "files_sent")
      ]_vars

\* The flag is on and a premium requester got two items, none of them with a
\* deletion scheduled.
C20_Witness ==
    /\ out.handler = "start_command"
    /\ out.as_premium
    /\ out.reply = "files_sent"
    /\ Len(out.copied) >= 2
    /\ auto_delete_data = Bool(TRUE)
    /\ out.delete_tasks = <<>>
    /\ ~out.notification

\* The positions of the copies of one item in the calls of a delivery
CopiesOf(trace, id) ==
    {n \in 1..Len(trace) : trace[n].ev = "copy" /\ trace[n].id = id}

\* The n-th call is a copy of an item that was tried before
IsRetry(trace, n) ==
    /\ trace[n].ev = "copy"
    /\ \E m \in 1..(n - 1) : m \in CopiesOf(trace, trace[n].id)

\* C21: in a delivery every item is copied at most twice; a second copy
\* comes right after a sleep of the signalled duration that follows a first
\* copy which raised the flood-control signal, and such a first copy is
\* followed by exactly that; a copy that fails otherwise, and a second copy
\* that fails, end the calls.
C21_CopyRetriedOnceOnFlood ==
    [][(ItemRequest /\ out'.delivery) =>
          LET trace == out'.trace
          IN /\ \A n \in 1..Len(trace) :
                   trace[n].ev = "copy" => Cardinality(CopiesOf(trace, trace[n].id)) <= 2
             /\ \A n \in 1..Len(trace) :
                   IsRetry(trace, n) =>
                      /\ n >= 3
                      /\ trace[n - 1] = Sleep(out'.outcomes.x)
                      /\ trace[n - 2] = Copy(trace[n].id, "flood")
             /\ \A n \in 1..Len(trace) :
                   (trace[n].ev = "copy" /\ trace[n].result = "flood"
                      /\ ~IsRetry(trace, n)) =>
                      /\ n + 2 <= Len(trace)
                      /\ IsRetry(trace, n + 2)
             /\ \A n \in 1..Len(trace) :
                   trace[n].ev = "sleep" => n >= 2 /\ trace[n - 1].result = "flood"
             /\ \A n \in 1..Len(trace) :
                   (trace[n].ev = "copy"
                      /\ (trace[n].result = "error"
                            \/ (IsRetry(trace, n) /\ trace[n].result # "ok"))) =>
                      /\ n = Len(trace)
                      /\ out'.reply = "copy_failed"
      ]_vars

\* Two items went through on their second copy and the third failed at once:
\* seven calls, two items delivered.
C21_Witness ==
    /\ out.handler = "start_command"
    /\ out.reply = "copy_failed"
    /\ Len(out.trace) = 7
    /\ Len(out.copied) = 2
    /\ out.trace[2].ev = "sleep"
    /\ out.trace[7].result = "error"

\* C34: in a delivery in which every item is copied and auto-delete applies,
\* one deferred deletion is scheduled per copied item in the resolved order
\* of the items, and after the loop one deletion warning that refers to the
\* copy of the last item; when auto-delete does not apply neither is
\* scheduled.
C34_DeletionsFollowCopies ==
    [][(ItemRequest /\ out'.delivery /\ out'.reply = "files_sent") =>
          LET ids == out'.ids
          IN IF AutoDeleteOn /\ ~PremiumNow(out'.user)
             THEN /\ out'.copied = ids
                  /\ out'.delete_tasks = ids
                  /\ out'.notification
                  /\ out'.last_message = <<ids[Len(ids)]>>
             ELSE /\ out'.delete_tasks = <<>>
                  /\ ~out'.notification
                  /\ out'.last_message = <<>>
      ]_vars

\* With the flag on, a requester whose premium has run out got a range of
\* items, the first and the last on their second copy: a deletion for each
\* in order and the warning for the last.
C34_Witness ==
    /\ out.handler = "start_command"
    /\ ~out.as_premium
    /\ out.reply = "files_sent"
    /\ auto_delete_data = Bool(TRUE)
    /\ Len(out.ids) = MaxMsgId
    /\ out.outcomes.flood_at = {1, 3}
    /\ out.delete_tasks = out.ids
    /\ out.notification
    /\ out.last_message = <<out.ids[MaxMsgId]>>

\* The words of the request a pending entry was stored for: handle_session_expired
\* stores "set-" and the decoded payload of the request
OriginalOf(link) == Tail(decode(removeprefix(link, "verify_")))

\* The link the last verification offered is opened by the same user
OpensOffered ==
    /\ out.reply = "verified_get_file"
    /\ Runs("start_command")
    /\ out'.user = out.user
    /\ out'.start = out.link.start

\* C32: the link offered after a verification that follows a Session-Expired
\* item request resolves, opened with a valid session, to exactly the ids of
\* that request, for one id, for a range, and when the request was such a
\* re-offered "set-" link itself.
C32_PendingRoundTrip ==
    [][OpensOffered =>
          /\ out'.delivery
          /\ out'.ids = parse_message_ids(OriginalOf(out.link.start), DB_CHANNEL_ID, FALSE)
          /\ out'.ids # <<>>
      ]_vars

\* The offered link of a range request and of a request of one id do resolve
\* to the ids of the request
C32_FirstOfferRoundTrip ==
    [][OpensOffered /\ OriginalOf(out.link.start) \in PendingRequests =>
          /\ out'.delivery
          /\ out'.reply = "files_sent"
          /\ out'.ids = parse_message_ids(OriginalOf(out.link.start), DB_CHANNEL_ID, FALSE)
      ]_vars

C32_Witness ==
    /\ out.handler = "start_command"
    /\ out.start = Prefixed("verify_", encode(<<Text("set"), Text("get"), NumStr(1), NumStr(MaxMsgId)>>))
    /\ out.reply = "files_sent"
    /\ Len(out.ids) > 1

\* The last run verified a token of its user while the stored mode was "24"
VerifiedIn24 ==
    /\ out.handler = "start_command"
    /\ out.reply \in {"verified", "verified_get_file"}
    /\ StoredMode(variables_data) = Text("24")

\* C38: for every verification duration the 24h-mode prompt accepts and
\* stores as token_time, a non-premium user who has completed a token
\* verification holds a session that check_session_validity reports valid
\* for a request made immediately afterwards: in mode "24" the next item
\* request is delivered and not sent back to Session-Expired handling.
C38_VerifiedSessionIsValid ==
    [][(VerifiedIn24 /\ ItemRequest /\ out'.user = out.user /\ ~PremiumNow(out.user)) =>
          /\ check_session_validity(variables_data, now, out.user)
          /\ out'.delivery
          /\ out'.reply # "session_expired"
      ]_vars

\* The stored record of the user is one check_premium cannot read
Malformed(user_id) ==
    /\ HasRecord(variables_data, user_id)
    /\ RecordOf(variables_data, user_id).expiry.tag # "iso"

\* C39: premium checks fail closed: when the read of the premium map raises
\* or the stored record is malformed, check_premium answers is_premium =
\* false with the error flag, raises nothing and writes no map, and the start
\* flow treats the requester as not premium and applies the stored
\* verification mode.
C39_PremiumChecksFailClosed ==
    [][(ItemRequest /\ (out'.fault = "read" \/ Malformed(out'.user))) =>
          /\ out'.result.error
          /\ ~out'.result.is_premium
          /\ variables_data'[PREMIUM_SET_KEY] = variables_data[PREMIUM_SET_KEY]
          /\ ~out'.as_premium
          /\ IF mode_of(variables_data) = Text("link") /\ ~has_set(WordsOf(out'.start))
             THEN out'.reply = "download_link" /\ ~out'.delivery
             ELSE IF mode_of(variables_data) = Text("24") /\ ~SessionLive(out'.user)
             THEN out'.reply = "session_expired" /\ ~out'.delivery
             ELSE out'.delivery /\ out'.link_mode = (mode_of(variables_data) = Text("link"))
      ]_vars

\* In mode "24" the holder of a record without a readable expiry asked for an
\* item and was sent to Session-Expired handling, the record still stored.
C39_Witness ==
    /\ out.handler = "start_command"
    /\ out.result.error
    /\ out.fault = "none"
    /\ out.reply = "session_expired"
    /\ Malformed(out.user)

\* ================================================== the verification flow
\* start_command runs on a token link
TokenRequest == Runs("start_command") /\ startswith(out'.start, "time_")

\* The payload is the token now stored for the user
TokenMatches(user_id, payload) ==
    /\ TokenOf(variables_data, user_id) \notin {Absent, None}
    /\ TokenOf(variables_data, user_id) = payload

\* The stored verification time in seconds, 3600 when none is stored
VerificationTime ==
    IF StoredTokenTime(variables_data) \in {Absent, None} THEN 3600
    ELSE StoredTokenTime(variables_data).n

\* C4: presenting the stored token clears it and sets the session expiry to
\* the time of verification plus the stored verification time, or plus 3600
\* seconds when none is stored.
C4_VerificationGrantsSession ==
    [][(TokenRequest /\ TokenMatches(out'.user, out'.start)) =>
          /\ out'.reply \in {"verified", "verified_get_file"}
          /\ TokenOf(variables_data', out'.user) = None
          /\ SessionOf(variables_data', out'.user)
               = isoformat(now + VerificationTime)
      ]_vars

\* With a verification time of 1 second stored, a token was verified at time
\* 1: the token is cleared and the session runs until time 2.
C4_Witness ==
    /\ out.handler = "start_command"
    /\ out.reply = "verified_get_file"
    /\ now = 1
    /\ StoredTokenTime(variables_data) = NumStr(1)
    /\ TokenOf(variables_data, out.user) = None
    /\ SessionOf(variables_data, out.user) = isoformat(2)

\* C6: a token link of user u is verified only when its payload is the token
\* now stored for u; anything else (another user's token, a superseded or
\* consumed one, or no token stored) gets the "invalid or expired" reply and
\* the session, token and pending request of u stay as they were.
C6_OnlyStoredTokenVerifies ==
    [][TokenRequest =>
          IF TokenMatches(out'.user, out'.start)
          THEN out'.reply \in {"verified", "verified_get_file"}
          ELSE /\ out'.reply = "token_invalid"
               /\ GatingStateKept(out'.user)
               /\ variables_data' = variables_data
      ]_vars

\* User 1, holding a token of their own, presented the token stored for user 2
\* and was rejected.
C6_Witness ==
    /\ out.handler = "start_command"
    /\ out.reply = "token_invalid"
    /\ out.user = 1
    /\ TokenOf(variables_data, 2) = out.start
    /\ startswith(TokenOf(variables_data, 1), "time_")
    /\ TokenOf(variables_data, 1) # out.start

\* C5: a verification token is single-use: however the runs of
\* handle_token_verification interleave, no more sessions are granted on
\* tokens than tokens were issued.
C5_TokenSingleUse == history.granted <= history.issued

====
